---- MODULE Spec2Model ----
(***************************************************************************)
(* Exclave: the hot-seat hex territory game.  The model covers the rules   *)
(* engine (core/rules.ts, GameEngine), the hex arithmetic and the          *)
(* connected-component search it uses, and the reducer of state.tsx that   *)
(* threads the live GameState through the engine.                          *)
(*                                                                         *)
(* A GameState is a record.  Its `scores` field is, in the source, a       *)
(* reference to one Record<PlayerId, number> object: every `{ ...state }`  *)
(* copies the reference, so the live state, the pending combat result and  *)
(* every earlier state of the same game read the same object.  That object *)
(* is the variable `scores`; ScoresOf(s) is what `s.scores[p]` reads.      *)
(***************************************************************************)
EXTENDS Integers, Sequences, FiniteSets, TLC

\* state:  the live GameState held by useReducer (all fields but scores)
\* scores: the scores object of the game
\* budget: the number of dispatches the game is still followed for
\* call:   the arguments of a call of a map or scoring function made outside
\*         a game, null while a game is followed
\* ret:    what that call returned, null before it returns; in a game played
\*         through the interface, the React state of the dice panel
VARIABLES state, scores, budget, call, ret

vars == <<state, scores, budget, call, ret>>

(* ---------------------------------------------------------------------- *)
(* Optional values: null is the empty tuple, a present value a 1-tuple.    *)
(* ---------------------------------------------------------------------- *)
None == <<>>
Some(x) == <<x>>

(* ---------------------------------------------------------------------- *)
(* Program constants and bounds                                            *)
(* ---------------------------------------------------------------------- *)
MaxUnits == 8
ActionsPerTurn == 5
DieSides == 6
ReinfDivisor == 6

\* The number of actions dispatched to the reducer in a game on BoardRow and
\* in a game on BoardWide.
MaxDispatches == 6
MaxWideDispatches == 4
\* The hexes (q, r), 0 <= q <= MaxCoord and 0 <= r <= 2, are those a land map
\* is drawn from.
MaxCoord == 2
\* The largest cell id a payload names.
MaxPayloadId == 4
\* The largest unitCount payload a MOVE is dispatched with.
MaxMoveCount == 2
\* minTerritorySize of the SplitConfig a territory split is called with.
MinTerritorySize == 2
\* Seeds 0 .. MaxSeed are passed to newGame; Math.random() * 1000000 yields
\* MaxSeed + 1 or MaxSeed + 2.
MaxSeed == 2
\* Actions dispatched in a session that starts before any game.
MaxSessionDispatches == 2
\* The length of the cycle of draws a territory split reads.
SplitDraws == 2
\* winGoal of the games started.
WinGoal == 2
\* this.rng() returns a number in [0, 1): the values k / RngSteps,
\* k in 0 .. RngSteps - 1, stand for it, a draw being the numerator k.
RngSteps == 12
\* The number of actions dispatched in a game followed for its dice.
MaxDiceDispatches == 3
\* The number of actions dispatched in a game of three players.
MaxTurnDispatches == 7
\* The number of actions dispatched in a game where cells are selected.
MaxSelectDispatches == 5
\* The hexes (q, r) with -HexRange <= q, r <= HexRange are those the hex
\* functions are called with.
HexRange == 2
\* The number of actions dispatched in a game that the first exclave ends.
MaxOverDispatches == 5
\* The number of actions dispatched in a game played through the interface.
MaxPanelDispatches == 6

PlayerIds == {0, 1, 2}

Abs(x) == IF x < 0 THEN -x ELSE x
Min(a, b) == IF a < b THEN a ELSE b
Max(a, b) == IF a > b THEN a ELSE b

(* ---------------------------------------------------------------------- *)
(* Hex coordinate math (core/hex.ts)                                       *)
(* ---------------------------------------------------------------------- *)
Hex(q, r) == [q |-> q, r |-> r]

HEX_DIRECTIONS ==
  << Hex(1, 0), Hex(1, -1), Hex(0, -1), Hex(-1, 0), Hex(-1, 1), Hex(0, 1) >>

add(a, b) == Hex(a.q + b.q, a.r + b.r)

subtract(a, b) == Hex(a.q - b.q, a.r - b.r)

\* distance as the larger of |dq| and |dr|, the third axis left out.
distanceTwoAxes(a, b) ==
  LET vec == subtract(a, b)
  IN  Max(Abs(vec.q), Abs(vec.r))

\* |dq| + |dq+dr| + |dr| is even for integer coordinates, so the source's
\* real division by 2 is exact.
distance(a, b) ==
  LET vec == subtract(a, b)
  IN  (Abs(vec.q) + Abs(vec.q + vec.r) + Abs(vec.r)) \div 2

getNeighbors(coord) == [i \in 1..Len(HEX_DIRECTIONS) |-> add(coord, HEX_DIRECTIONS[i])]

areAdjacent(a, b) == distance(a, b) = 1

(* ---------------------------------------------------------------------- *)
(* Array helpers                                                           *)
(* ---------------------------------------------------------------------- *)
\* Array.prototype.filter: the elements the callback accepts, in order.
RECURSIVE filterFrom(_, _, _)
filterFrom(seq, keep, i) ==
  IF i > Len(seq) THEN <<>>
  ELSE (IF seq[i] \in keep THEN <<seq[i]>> ELSE <<>>) \o filterFrom(seq, keep, i + 1)

\* keep is the set of values the callback accepts.
filter(seq, keep) == filterFrom(seq, keep, 1)

\* state.cells.find(c => c.id === cellId): the first match, or null.
findCell(cells, cellId) ==
  LET hits == {i \in DOMAIN cells : cells[i].id = cellId}
  IN  IF hits = {} THEN None
      ELSE Some(cells[CHOOSE i \in hits : \A j \in hits : i <= j])

(* ---------------------------------------------------------------------- *)
(* getConnectedComponents (core/map.ts): breadth-first flood fill          *)
(* ---------------------------------------------------------------------- *)
\* The inner `for (const neighbor of neighbors)` loop: st carries the
\* visited set and the queue.
RECURSIVE visitNeighbors(_, _, _, _)
visitNeighbors(neighbors, i, hexSet, st) ==
  IF i > Len(neighbors) THEN st
  ELSE LET n == neighbors[i]
       IN  IF n \notin st.visited /\ n \in hexSet
             THEN visitNeighbors(neighbors, i + 1, hexSet,
                    [visited |-> st.visited \cup {n}, queue |-> Append(st.queue, n)])
             ELSE visitNeighbors(neighbors, i + 1, hexSet, st)

\* The `while (queue.length > 0)` loop.
RECURSIVE drainQueue(_, _, _, _)
drainQueue(queue, component, visited, hexSet) ==
  IF queue = <<>> THEN [component |-> component, visited |-> visited]
  ELSE LET current == Head(queue)
           st == visitNeighbors(getNeighbors(current), 1, hexSet,
                   [visited |-> visited, queue |-> Tail(queue)])
       IN  drainQueue(st.queue, Append(component, current), st.visited, hexSet)

\* The outer `for (const hex of hexes)` loop.
RECURSIVE scanHexes(_, _, _, _, _)
scanHexes(hexes, i, hexSet, visited, components) ==
  IF i > Len(hexes) THEN components
  ELSE LET hex == hexes[i]
       IN  IF hex \notin hexSet \/ hex \in visited
             THEN scanHexes(hexes, i + 1, hexSet, visited, components)
             ELSE LET r == drainQueue(<<hex>>, <<>>, visited \cup {hex}, hexSet)
                  IN  scanHexes(hexes, i + 1, hexSet, r.visited,
                                Append(components, r.component))

\* getConnectedComponents flooding through every listed hex, accepted by the
\* predicate or not.
getConnectedComponentsThroughAll(hexes, ownedBy) ==
  LET hexSet == {hexes[i] : i \in DOMAIN hexes}
      RECURSIVE scanOwned(_, _, _)
      scanOwned(i, visited, components) ==
        IF i > Len(hexes) THEN components
        ELSE IF hexes[i] \notin ownedBy \/ hexes[i] \in visited
          THEN scanOwned(i + 1, visited, components)
        ELSE LET r == drainQueue(<<hexes[i]>>, <<>>, visited \cup {hexes[i]}, hexSet)
             IN  scanOwned(i + 1, r.visited, Append(components, r.component))
  IN  scanOwned(1, {}, <<>>)

\* ownedBy is the set of hexes the membership predicate accepts.
getConnectedComponents(hexes, ownedBy) ==
  LET hexSet == {hexes[i] : i \in {j \in DOMAIN hexes : hexes[j] \in ownedBy}}
  IN  scanHexes(hexes, 1, hexSet, {}, <<>>)

(* ---------------------------------------------------------------------- *)
(* GameEngine (core/rules.ts).  s is a GameState record, sc the scores     *)
(* object s.scores refers to.                                              *)
(* ---------------------------------------------------------------------- *)
coordOf(cell) == Hex(cell.q, cell.r)

\* The cells of a state, as a set.
Cells(s) == {s.cells[i] : i \in DOMAIN s.cells}

indexOf(seq, x) ==
  LET hits == {i \in DOMAIN seq : seq[i] = x}
  IN  IF hits = {} THEN -1 ELSE (CHOOSE i \in hits : \A j \in hits : i <= j) - 1

getPlayerTerritoryCount(s, playerId) ==
  Len(filter(s.cells, {c \in Cells(s) : c.land /\ c.owner = playerId}))

\* components.reduce((largest, current) =>
\*   current.length > largest.length ? current : largest): the index kept.
RECURSIVE largestIndex(_, _, _)
largestIndex(components, i, best) ==
  IF i > Len(components) THEN best
  ELSE largestIndex(components, i + 1,
         IF Len(components[i]) > Len(components[best]) THEN i ELSE best)

\* detectExclaves keeping only the components smaller than the largest.
detectExclavesBySize(s, playerId) ==
  LET playerCells == filter(s.cells, {c \in Cells(s) : c.land /\ c.owner = playerId})
      playerHexes == [i \in DOMAIN playerCells |-> coordOf(playerCells[i])]
      isPlayerHex == {playerHexes[i] : i \in DOMAIN playerHexes}
      components == getConnectedComponents(playerHexes, isPlayerHex)
      largest == largestIndex(components, 2, 1)
      smaller == {components[i] : i \in {j \in DOMAIN components :
                                           Len(components[j]) < Len(components[largest])}}
  IN  IF Len(playerHexes) = 0 THEN <<>>
      ELSE IF Len(components) <= 1 THEN <<>>
      ELSE filter(components, smaller)

detectExclaves(s, playerId) ==
  LET playerCells == filter(s.cells, {c \in Cells(s) : c.land /\ c.owner = playerId})
      playerHexes == [i \in DOMAIN playerCells |-> coordOf(playerCells[i])]
      isPlayerHex == {playerHexes[i] : i \in DOMAIN playerHexes}
      components == getConnectedComponents(playerHexes, isPlayerHex)
      largest == largestIndex(components, 2, 1)
  IN  IF Len(playerHexes) = 0 THEN <<>>
      ELSE IF Len(components) <= 1 THEN <<>>
      ELSE [i \in 1..(Len(components) - 1) |->
              IF i < largest THEN components[i] ELSE components[i + 1]]

\* Writes state.scores[playerId] for every player of the state: the value
\* of the scores object afterwards.
updateExclaveScores(s, sc) ==
  [p \in DOMAIN sc |->
     IF \E i \in DOMAIN s.players : s.players[i] = p
       THEN Len(detectExclaves(s, p))
       ELSE sc[p]]

\* canReinforce without the units < 8 test.
canReinforceUncapped(s, cellId) ==
  LET cell == findCell(s.cells, cellId)
  IN  IF s.phase # "reinforce" \/ s.reinfLeft <= 0 THEN FALSE
      ELSE IF cell = None \/ ~cell[1].land \/ cell[1].owner # s.current THEN FALSE
      ELSE TRUE

canReinforce(s, cellId) ==
  LET cell == findCell(s.cells, cellId)
  IN  IF s.phase # "reinforce" \/ s.reinfLeft <= 0 THEN FALSE
      ELSE IF cell = None \/ ~cell[1].land \/ cell[1].owner # s.current THEN FALSE
      ELSE cell[1].units < MaxUnits

reinforce(s, cellId) ==
  IF ~canReinforce(s, cellId) THEN s
  ELSE LET bump(cell) == IF cell.id = cellId
                           THEN [cell EXCEPT !.units = Min(MaxUnits, cell.units + 1)]
                           ELSE cell
           reinfLeft == s.reinfLeft - 1
       IN  [s EXCEPT !.cells = [i \in DOMAIN s.cells |-> bump(s.cells[i])],
                     !.reinfLeft = reinfLeft,
                     !.phase = IF reinfLeft <= 0 THEN "attack" ELSE s.phase]

\* canAttack without the fromCell.units < 1 test.
canAttackFromEmpty(s, fromId, toId) ==
  LET fromCell == findCell(s.cells, fromId)
      toCell == findCell(s.cells, toId)
  IN  IF s.phase # "attack" \/ s.actionsLeft <= 0 THEN FALSE
      ELSE IF fromCell = None \/ toCell = None THEN FALSE
      ELSE IF ~fromCell[1].land \/ ~toCell[1].land THEN FALSE
      ELSE IF fromCell[1].owner # s.current \/ toCell[1].owner = s.current THEN FALSE
      ELSE areAdjacent(coordOf(fromCell[1]), coordOf(toCell[1]))

canAttack(s, fromId, toId) ==
  LET fromCell == findCell(s.cells, fromId)
      toCell == findCell(s.cells, toId)
  IN  IF s.phase # "attack" \/ s.actionsLeft <= 0 THEN FALSE
      ELSE IF fromCell = None \/ toCell = None THEN FALSE
      ELSE IF ~fromCell[1].land \/ ~toCell[1].land THEN FALSE
      ELSE IF fromCell[1].owner # s.current \/ toCell[1].owner = s.current THEN FALSE
      ELSE IF fromCell[1].units < 1 THEN FALSE
      ELSE areAdjacent(coordOf(fromCell[1]), coordOf(toCell[1]))

Sum(seq) ==
  LET RECURSIVE sumFrom(_)
      sumFrom(i) == IF i > Len(seq) THEN 0 ELSE seq[i] + sumFrom(i + 1)
  IN  sumFrom(1)

\* Math.floor(this.rng() * 6) + 1 for the draw u.
dieFace(u) == (u * DieSides) \div RngSteps + 1

\* rollDice counting equal totals as a win of the attacker.
rollDiceTiesWin(attackerCount, defenderCount, attackerId, defenderId, rng) ==
  LET attackerRolls == [i \in 1..attackerCount |-> dieFace(rng[i])]
      defenderRolls == [i \in 1..defenderCount |-> dieFace(rng[attackerCount + i])]
      attackerTotal == Sum(attackerRolls)
      defenderTotal == Sum(defenderRolls)
  IN  [attacker |-> attackerRolls,
       defender |-> defenderRolls,
       attackerTotal |-> attackerTotal,
       defenderTotal |-> defenderTotal,
       attackerWins |-> attackerTotal >= defenderTotal,
       attackerId |-> attackerId,
       defenderId |-> defenderId]

\* rng is the stream of draws this.rng() returns, in the order drawn: the
\* attacker's dice first, then the defender's.
rollDice(attackerCount, defenderCount, attackerId, defenderId, rng) ==
  LET attackerRolls == [i \in 1..attackerCount |-> dieFace(rng[i])]
      defenderRolls == [i \in 1..defenderCount |-> dieFace(rng[attackerCount + i])]
      attackerTotal == Sum(attackerRolls)
      defenderTotal == Sum(defenderRolls)
  IN  [attacker |-> attackerRolls,
       defender |-> defenderRolls,
       attackerTotal |-> attackerTotal,
       defenderTotal |-> defenderTotal,
       attackerWins |-> attackerTotal > defenderTotal,
       attackerId |-> attackerId,
       defenderId |-> defenderId]

createEmptyDiceRoll ==
  [attacker |-> <<>>, defender |-> <<>>, attackerTotal |-> 0, defenderTotal |-> 0,
   attackerWins |-> FALSE, attackerId |-> 0, defenderId |-> 0]

\* The cells after the auto-capture of a 0-unit target.
autoCaptureCells(s, fromId, toId) ==
  LET fromCell == findCell(s.cells, fromId)[1]
      unitsToMove == IF fromCell.units >= 2 THEN fromCell.units - 1 ELSE fromCell.units
      unitsRemaining == IF fromCell.units >= 2 THEN 1 ELSE 0
      capture(cell) ==
        IF cell.id = fromId THEN [cell EXCEPT !.units = unitsRemaining]
        ELSE IF cell.id = toId
          THEN [cell EXCEPT !.owner = s.current, !.units = unitsToMove]
        ELSE cell
  IN  [i \in DOMAIN s.cells |-> capture(s.cells[i])]

\* attackerWinsCells moving the whole stack, none left behind.
attackerWinsCellsMoveAll(s, fromId, toId) ==
  LET fromCell == findCell(s.cells, fromId)[1]
      capture(cell) ==
        IF cell.id = fromId THEN [cell EXCEPT !.units = 0]
        ELSE IF cell.id = toId
          THEN [cell EXCEPT !.owner = s.current, !.units = fromCell.units]
        ELSE cell
  IN  [i \in DOMAIN s.cells |-> capture(s.cells[i])]

\* attackerWinsCells taking an origin left without units off the board.
attackerWinsCellsDropsEmpty(s, fromId, toId) ==
  LET fromCell == findCell(s.cells, fromId)[1]
      unitsToMove == IF fromCell.units >= 2 THEN fromCell.units - 1 ELSE fromCell.units
      unitsRemaining == IF fromCell.units >= 2 THEN 1 ELSE 0
      capture(cell) ==
        IF cell.id = fromId THEN [cell EXCEPT !.units = unitsRemaining]
        ELSE IF cell.id = toId
          THEN [cell EXCEPT !.owner = s.current, !.units = unitsToMove]
        ELSE cell
      captured == [i \in DOMAIN s.cells |-> capture(s.cells[i])]
  IN  filter(captured, {captured[i] : i \in {j \in DOMAIN captured : captured[j].units > 0}})

\* The cells after a roll the attacker wins.
attackerWinsCells(s, fromId, toId) ==
  LET fromCell == findCell(s.cells, fromId)[1]
      unitsToMove == IF fromCell.units >= 2 THEN fromCell.units - 1 ELSE fromCell.units
      unitsRemaining == IF fromCell.units >= 2 THEN 1 ELSE 0
      capture(cell) ==
        IF cell.id = fromId THEN [cell EXCEPT !.units = unitsRemaining]
        ELSE IF cell.id = toId
          THEN [cell EXCEPT !.owner = s.current, !.units = unitsToMove]
        ELSE cell
  IN  [i \in DOMAIN s.cells |-> capture(s.cells[i])]

\* sacrificeCells without the Math.min(8, ...) on the defender's stack.
sacrificeCellsUncapped(s, fromId, toId) ==
  LET toCell == findCell(s.cells, toId)[1]
      sacrifice(cell) ==
        IF cell.id = fromId THEN [cell EXCEPT !.owner = toCell.owner]
        ELSE IF cell.id = toId /\ toCell.units > 0
          THEN [cell EXCEPT !.units = toCell.units + 1]
        ELSE cell
  IN  [i \in DOMAIN s.cells |-> sacrifice(s.cells[i])]

\* sacrificeCells leaving the origin cell with the attacker.
sacrificeCellsKeepOwner(s, fromId, toId) ==
  LET toCell == findCell(s.cells, toId)[1]
      sacrifice(cell) ==
        IF cell.id = toId /\ toCell.units > 0
          THEN [cell EXCEPT !.units = Min(MaxUnits, toCell.units + 1)]
        ELSE cell
  IN  [i \in DOMAIN s.cells |-> sacrifice(s.cells[i])]

\* The cells after a roll the attacker loses (sacrificial rule).
sacrificeCells(s, fromId, toId) ==
  LET toCell == findCell(s.cells, toId)[1]
      sacrifice(cell) ==
        IF cell.id = fromId THEN [cell EXCEPT !.owner = toCell.owner]
        ELSE IF cell.id = toId /\ toCell.units > 0
          THEN [cell EXCEPT !.units = Min(MaxUnits, toCell.units + 1)]
        ELSE cell
  IN  [i \in DOMAIN s.cells |-> sacrifice(s.cells[i])]

\* attack taking an action point for the auto-capture of a 0-unit target too.
attackChargesAutoCapture(s, sc, fromId, toId, rng) ==
  IF ~canAttack(s, fromId, toId)
    THEN [state |-> s, dice |-> createEmptyDiceRoll, scores |-> sc]
  ELSE
    LET fromCell == findCell(s.cells, fromId)[1]
        toCell == findCell(s.cells, toId)[1]
        dice == rollDice(fromCell.units, toCell.units, s.current, toCell.owner, rng)
        newState == [s EXCEPT
                       !.cells = IF dice.attackerWins
                                   THEN attackerWinsCells(s, fromId, toId)
                                   ELSE sacrificeCells(s, fromId, toId),
                       !.actionsLeft = s.actionsLeft - 1]
    IN  IF toCell.units = 0
          THEN [state |-> [s EXCEPT !.cells = autoCaptureCells(s, fromId, toId),
                                    !.actionsLeft = s.actionsLeft - 1],
                dice |-> createEmptyDiceRoll,
                scores |-> sc]
          ELSE [state |-> newState,
                dice |-> dice,
                scores |-> updateExclaveScores(newState, sc)]

\* The returned { state, dice }, and in `scores` the scores object as the
\* call leaves it: newState.scores is state.scores, so updateExclaveScores
\* writes into the object the argument state refers to.
attack(s, sc, fromId, toId, rng) ==
  IF ~canAttack(s, fromId, toId)
    THEN [state |-> s, dice |-> createEmptyDiceRoll, scores |-> sc]
  ELSE
    LET fromCell == findCell(s.cells, fromId)[1]
        toCell == findCell(s.cells, toId)[1]
        dice == rollDice(fromCell.units, toCell.units, s.current, toCell.owner, rng)
        newState == [s EXCEPT
                       !.cells = IF dice.attackerWins
                                   THEN attackerWinsCells(s, fromId, toId)
                                   ELSE sacrificeCells(s, fromId, toId),
                       !.actionsLeft = s.actionsLeft - 1]
    IN  IF toCell.units = 0
          THEN [state |-> [s EXCEPT !.cells = autoCaptureCells(s, fromId, toId)],
                dice |-> createEmptyDiceRoll,
                scores |-> sc]
          ELSE [state |-> newState,
                dice |-> dice,
                scores |-> updateExclaveScores(newState, sc)]

canMove(s, fromId, toId) ==
  LET fromCell == findCell(s.cells, fromId)
      toCell == findCell(s.cells, toId)
  IN  IF s.phase # "attack" \/ s.actionsLeft <= 0 THEN FALSE
      ELSE IF fromCell = None \/ toCell = None THEN FALSE
      ELSE IF ~fromCell[1].land \/ ~toCell[1].land THEN FALSE
      ELSE IF fromCell[1].owner # s.current \/ toCell[1].owner # s.current THEN FALSE
      ELSE IF fromCell[1].units <= 1 THEN FALSE
      ELSE TRUE

move(s, fromId, toId, unitCount) ==
  IF ~canMove(s, fromId, toId) THEN s
  ELSE
    LET fromCell == findCell(s.cells, fromId)[1]
        toCell == findCell(s.cells, toId)[1]
        maxMove == fromCell.units - 1
        actualMove == Min(unitCount, maxMove)
        maxDestination == MaxUnits - toCell.units
        finalMove == Min(actualMove, maxDestination)
        shift(cell) ==
          IF cell.id = fromId THEN [cell EXCEPT !.units = cell.units - finalMove]
          ELSE IF cell.id = toId THEN [cell EXCEPT !.units = cell.units + finalMove]
          ELSE cell
    IN  IF finalMove <= 0 THEN s
        ELSE [s EXCEPT !.cells = [i \in DOMAIN s.cells |-> shift(s.cells[i])],
                       !.actionsLeft = s.actionsLeft - 1]

canEndTurn(s) == s.reinfLeft = 0 \/ s.actionsLeft = 0

\* endTurn leaving actionsLeft as the outgoing player left it.
endTurnKeepsActions(s) ==
  IF ~canEndTurn(s) THEN s
  ELSE
    LET nextPlayerIndex == (indexOf(s.players, s.current) + 1) % Len(s.players)
        nextPlayer == s.players[nextPlayerIndex + 1]
        nextPlayerHexCount == getPlayerTerritoryCount(s, nextPlayer)
        reinforcements == Max(1, nextPlayerHexCount \div ReinfDivisor)
    IN  [s EXCEPT !.round = IF nextPlayer = s.players[1] THEN s.round + 1 ELSE s.round,
                  !.current = nextPlayer,
                  !.phase = "reinforce",
                  !.reinfLeft = reinforcements,
                  !.selected = None]

\* endTurn handing the cells the outgoing player left without units to the
\* next player.
endTurnCedesEmptyCells(s) ==
  IF ~canEndTurn(s) THEN s
  ELSE
    LET nextPlayerIndex == (indexOf(s.players, s.current) + 1) % Len(s.players)
        nextPlayer == s.players[nextPlayerIndex + 1]
        nextPlayerHexCount == getPlayerTerritoryCount(s, nextPlayer)
        reinforcements == Max(1, nextPlayerHexCount \div ReinfDivisor)
        cede(cell) == IF cell.owner = s.current /\ cell.units = 0
                        THEN [cell EXCEPT !.owner = nextPlayer]
                        ELSE cell
    IN  [s EXCEPT !.cells = [i \in DOMAIN s.cells |-> cede(s.cells[i])],
                  !.round = IF nextPlayer = s.players[1] THEN s.round + 1 ELSE s.round,
                  !.current = nextPlayer,
                  !.phase = "reinforce",
                  !.reinfLeft = reinforcements,
                  !.actionsLeft = ActionsPerTurn,
                  !.selected = None]

\* endTurn handing the next player one action more.
endTurnSixActions(s) ==
  IF ~canEndTurn(s) THEN s
  ELSE
    LET nextPlayerIndex == (indexOf(s.players, s.current) + 1) % Len(s.players)
        nextPlayer == s.players[nextPlayerIndex + 1]
        nextPlayerHexCount == getPlayerTerritoryCount(s, nextPlayer)
        reinforcements == Max(1, nextPlayerHexCount \div ReinfDivisor)
    IN  [s EXCEPT !.round = IF nextPlayer = s.players[1] THEN s.round + 1 ELSE s.round,
                  !.current = nextPlayer,
                  !.phase = "reinforce",
                  !.reinfLeft = reinforcements,
                  !.actionsLeft = ActionsPerTurn + 1,
                  !.selected = None]

endTurn(s) ==
  IF ~canEndTurn(s) THEN s
  ELSE
    LET nextPlayerIndex == (indexOf(s.players, s.current) + 1) % Len(s.players)
        nextPlayer == s.players[nextPlayerIndex + 1]
        nextPlayerHexCount == getPlayerTerritoryCount(s, nextPlayer)
        reinforcements == Max(1, nextPlayerHexCount \div ReinfDivisor)
    IN  [s EXCEPT !.round = IF nextPlayer = s.players[1] THEN s.round + 1 ELSE s.round,
                  !.current = nextPlayer,
                  !.phase = "reinforce",
                  !.reinfLeft = reinforcements,
                  !.actionsLeft = ActionsPerTurn,
                  !.selected = None]

isGameOver(s, sc) ==
  \E i \in DOMAIN s.players : sc[s.players[i]] >= s.winGoal

\* The second loop of getWinner: the first player holding the highest score.
RECURSIVE highestScorer(_, _, _, _)
highestScorer(players, sc, i, winner) ==
  IF i > Len(players) THEN winner
  ELSE highestScorer(players, sc, i + 1,
         IF sc[players[i]] > sc[winner] THEN players[i] ELSE winner)

\* getWinner returning the holder of the highest score.
getWinnerByScore(s, sc) ==
  IF ~isGameOver(s, sc) THEN None
  ELSE Some(highestScorer(s.players, sc, 1, s.players[1]))

getWinner(s, sc) ==
  IF ~isGameOver(s, sc) THEN None
  ELSE LET hits == {i \in DOMAIN s.players : sc[s.players[i]] >= s.winGoal}
       IN  IF hits # {}
             THEN Some(s.players[CHOOSE i \in hits : \A j \in hits : i <= j])
             ELSE Some(highestScorer(s.players, sc, 1, s.players[1]))

\* The ids of the cells in `kept`, in the order of cells.
idsOf(cells, kept) ==
  LET chosen == filter(cells, kept)
  IN  [i \in DOMAIN chosen |-> chosen[i].id]

getValidAttackTargets(s, fromId) ==
  LET fromCell == findCell(s.cells, fromId)
      neighbors == getNeighbors(coordOf(fromCell[1]))
  IN  IF s.phase # "attack" THEN <<>>
      ELSE IF fromCell = None THEN <<>>
      ELSE IF fromCell[1].owner # s.current \/ fromCell[1].units < 1 THEN <<>>
      ELSE idsOf(s.cells,
                 {cell \in Cells(s) :
                    /\ cell.land
                    /\ cell.owner # s.current
                    /\ \E n \in DOMAIN neighbors : neighbors[n] = coordOf(cell)})

getValidReinforcementTargets(s) ==
  IF s.phase # "reinforce" \/ s.reinfLeft <= 0 THEN <<>>
  ELSE idsOf(s.cells,
             {cell \in Cells(s) : cell.land /\ cell.owner = s.current /\ cell.units < MaxUnits})

getValidMoveTargets(s, fromId) ==
  LET fromCell == findCell(s.cells, fromId)
      neighbors == getNeighbors(coordOf(fromCell[1]))
  IN  IF s.phase # "attack" THEN <<>>
      ELSE IF fromCell = None THEN <<>>
      ELSE IF fromCell[1].owner # s.current \/ fromCell[1].units <= 1 THEN <<>>
      ELSE idsOf(s.cells,
                 {cell \in Cells(s) :
                    /\ cell.land
                    /\ cell.owner = s.current
                    /\ cell.id # fromId
                    /\ cell.units < MaxUnits
                    /\ \E n \in DOMAIN neighbors : neighbors[n] = coordOf(cell)})

(* ---------------------------------------------------------------------- *)
(* TerritorySplitter (core/split.ts).  A Map<PlayerId, HexCoord[]> is the  *)
(* sequence of its values, player p at index p + 1.  rng is the stream of  *)
(* draws this.rng() returns and k the number of draws taken so far.        *)
(* ---------------------------------------------------------------------- *)
\* The next value of this.rng(): the stream is read round and round.
draw(rng, k) == rng[(k % Len(rng)) + 1]

\* The first pair i < j at the largest distance.
findFarthestPair(hexes) ==
  LET pairs == {ij \in (DOMAIN hexes) \X (DOMAIN hexes) : ij[1] < ij[2]}
      far(ij) == distance(hexes[ij[1]], hexes[ij[2]])
      before(a, b) == a[1] < b[1] \/ (a[1] = b[1] /\ a[2] <= b[2])
      best == CHOOSE a \in pairs :
                \A b \in pairs : far(a) > far(b) \/ (far(a) = far(b) /\ before(a, b))
  IN  IF pairs = {} THEN <<>> ELSE <<hexes[best[1]], hexes[best[2]]>>

\* The first triple i < j < k whose smallest pairwise distance is largest.
findFarthestTriple(hexes) ==
  LET triples == {t \in (DOMAIN hexes) \X (DOMAIN hexes) \X (DOMAIN hexes) :
                    t[1] < t[2] /\ t[2] < t[3]}
      far(t) == Min(Min(distance(hexes[t[1]], hexes[t[2]]),
                        distance(hexes[t[1]], hexes[t[3]])),
                    distance(hexes[t[2]], hexes[t[3]]))
      maxMinDistance == CHOOSE d \in {far(t) : t \in triples} :
                          \A e \in {far(t) : t \in triples} : e <= d
      farthest == {t \in triples : far(t) = maxMinDistance}
      i == CHOOSE a \in {t[1] : t \in farthest} : \A b \in {t[1] : t \in farthest} : a <= b
      withI == {t \in farthest : t[1] = i}
      j == CHOOSE a \in {t[2] : t \in withI} : \A b \in {t[2] : t \in withI} : a <= b
      withJ == {t \in withI : t[2] = j}
      k == CHOOSE a \in {t[3] : t \in withJ} : \A b \in {t[3] : t \in withJ} : a <= b
  IN  IF triples = {} THEN <<>>
      ELSE <<hexes[i], hexes[j], hexes[k]>>

generateSeedCandidates(hexes, playerCount) ==
  IF playerCount = 2 THEN findFarthestPair(hexes) ELSE findFarthestTriple(hexes)

\* Each of the 50 attempts computes the same candidates, whose score is at
\* least 0: the first attempt's seeds are kept.
findOptimalSeeds(hexes, playerCount) == generateSeedCandidates(hexes, playerCount)

\* voronoiSplit, the loop over the seeds for one hex; minDistance is null
\* for Infinity.
RECURSIVE closestSeedFrom(_, _, _, _, _, _, _)
closestSeedFrom(hex, seeds, i, closestSeed, minDistance, rng, k) ==
  IF i > Len(seeds) THEN [closestSeed |-> closestSeed, k |-> k]
  ELSE LET d == distance(seeds[i], hex)
       IN  IF minDistance = None \/ d < minDistance[1]
             THEN closestSeedFrom(hex, seeds, i + 1, i, Some(d), rng, k)
           ELSE IF d = minDistance[1]
             THEN IF 2 * draw(rng, k) < RngSteps
                    THEN closestSeedFrom(hex, seeds, i + 1, i, Some(d), rng, k + 1)
                    ELSE closestSeedFrom(hex, seeds, i + 1, closestSeed, minDistance, rng, k + 1)
           ELSE closestSeedFrom(hex, seeds, i + 1, closestSeed, minDistance, rng, k)

\* voronoiSplit, the loop over the hexes.
RECURSIVE voronoiFrom(_, _, _, _, _, _)
voronoiFrom(hexes, j, seeds, territories, rng, k) ==
  IF j > Len(hexes) THEN [territories |-> territories, k |-> k]
  ELSE LET c == closestSeedFrom(hexes[j], seeds, 1, 1, None, rng, k)
       IN  voronoiFrom(hexes, j + 1, seeds,
             [territories EXCEPT ![c.closestSeed] = Append(@, hexes[j])], rng, c.k)

voronoiSplit(hexes, seeds, rng, k) ==
  voronoiFrom(hexes, 1, seeds, [i \in DOMAIN seeds |-> <<>>], rng, k)

findBorderHexes(territory, allTerritories) ==
  LET territorySet == {territory[i] : i \in DOMAIN territory}
      allHexes == UNION {{allTerritories[p][i] : i \in DOMAIN allTerritories[p]} :
                           p \in DOMAIN allTerritories}
      border == {hex \in territorySet :
                   \E n \in DOMAIN HEX_DIRECTIONS :
                     /\ getNeighbors(hex)[n] \in allHexes
                     /\ getNeighbors(hex)[n] \notin territorySet}
  IN  filter(territory, border)

\* The player chosen, null for undefined, and the draws taken.
findBestNewOwner(hex, territories, targetSize, rng, k) ==
  LET adjacent(p) == \E n \in DOMAIN HEX_DIRECTIONS :
                       \E i \in DOMAIN territories[p] :
                         territories[p][i] = getNeighbors(hex)[n]
      accepted == {p \in DOMAIN territories :
                     Len(territories[p]) < targetSize /\ adjacent(p)}
      candidates == filter([p \in DOMAIN territories |-> p], accepted)
  IN  IF Len(candidates) = 0 THEN [owner |-> None, k |-> k]
      ELSE [owner |-> Some(candidates[(draw(rng, k) * Len(candidates)) \div RngSteps + 1]),
            k |-> k + 1]

\* moveHexBetweenTerritories handing the hex over without taking it out of
\* the territory it leaves.
moveHexKeepsOrigin(hex, from, to, territories) ==
  [territories EXCEPT ![to] = Append(territories[to], hex)]

moveHexBetweenTerritories(hex, from, to, territories) ==
  LET fromTerritory == territories[from]
      hits == {i \in DOMAIN fromTerritory : fromTerritory[i] = hex}
      index == CHOOSE i \in hits : \A j \in hits : i <= j
  IN  IF hits = {} THEN territories
      ELSE [territories EXCEPT
              ![from] = [i \in 1..(Len(fromTerritory) - 1) |->
                           IF i < index THEN fromTerritory[i] ELSE fromTerritory[i + 1]],
              ![to] = Append(territories[to], hex)]

\* balanceTerritories, the loop over the border hexes of one territory; st
\* carries the territories, the draws taken and the `changed` flag.
RECURSIVE moveBorderFrom(_, _, _, _, _, _, _)
moveBorderFrom(borderHexes, i, limit, playerId, st, targetSize, rng) ==
  IF i > limit THEN st
  ELSE LET hexToMove == borderHexes[i]
           best == findBestNewOwner(hexToMove, st.territories, targetSize, rng, st.k)
       IN  IF best.owner # None /\ best.owner[1] # playerId
             THEN moveBorderFrom(borderHexes, i + 1, limit, playerId,
                    [territories |-> moveHexBetweenTerritories(hexToMove, playerId,
                                       best.owner[1], st.territories),
                     k |-> best.k,
                     changed |-> TRUE],
                    targetSize, rng)
             ELSE moveBorderFrom(borderHexes, i + 1, limit, playerId,
                    [st EXCEPT !.k = best.k], targetSize, rng)

\* balanceTerritories, the loop over the territories.
RECURSIVE balancePlayersFrom(_, _, _, _)
balancePlayersFrom(p, st, targetSize, rng) ==
  IF p > Len(st.territories) THEN st
  ELSE LET territory == st.territories[p]
           excess == Len(territory) - targetSize
           borderHexes == findBorderHexes(territory, st.territories)
       IN  IF Len(territory) > targetSize
             THEN balancePlayersFrom(p + 1,
                    moveBorderFrom(borderHexes, 1, Min(excess, Len(borderHexes)), p, st,
                                   targetSize, rng),
                    targetSize, rng)
             ELSE balancePlayersFrom(p + 1, st, targetSize, rng)

\* balanceTerritories, the loop of at most 10 iterations.
RECURSIVE balanceFrom(_, _, _, _)
balanceFrom(iteration, st, targetSize, rng) ==
  IF iteration >= 10 THEN st
  ELSE LET after == balancePlayersFrom(1, [st EXCEPT !.changed = FALSE], targetSize, rng)
       IN  IF ~after.changed THEN after
           ELSE balanceFrom(iteration + 1, after, targetSize, rng)

\* The balanced territories and the draws taken.
balanceTerritories(territories, playerCount, rng, k) ==
  LET total == Sum([p \in DOMAIN territories |-> Len(territories[p])])
      targetSize == total \div playerCount
  IN  balanceFrom(0, [territories |-> territories, k |-> k, changed |-> FALSE],
                  targetSize, rng)

\* The first player, in the order of the map, holding a hex at the smallest
\* distance; null for undefined.
findNearestTerritoryOwner(hex, territories) ==
  LET entries == UNION {{<<p, i>> : i \in DOMAIN territories[p]} : p \in DOMAIN territories}
      far(e) == distance(hex, territories[e[1]][e[2]])
      before(a, b) == a[1] < b[1] \/ (a[1] = b[1] /\ a[2] <= b[2])
      best == CHOOSE a \in entries :
                \A b \in entries : far(a) < far(b) \/ (far(a) = far(b) /\ before(a, b))
  IN  IF entries = {} THEN None ELSE Some(best[1])

\* enforceContiguity, the loop over the strays of one territory.
RECURSIVE pushStraysFrom(_, _, _)
pushStraysFrom(strays, i, contiguous) ==
  IF i > Len(strays) THEN contiguous
  ELSE LET bestOwner == findNearestTerritoryOwner(strays[i], contiguous)
       IN  IF bestOwner # None
             THEN pushStraysFrom(strays, i + 1,
                    [contiguous EXCEPT ![bestOwner[1]] = Append(@, strays[i])])
             ELSE pushStraysFrom(strays, i + 1, contiguous)

\* enforceContiguity, the loop over the territories: contiguous holds the
\* territories of the players before p.
RECURSIVE enforceFrom(_, _, _)
enforceFrom(p, territories, contiguous) ==
  IF p > Len(territories) THEN contiguous
  ELSE LET territory == territories[p]
           components == getConnectedComponents(territory,
                           {territory[i] : i \in DOMAIN territory})
           largestComponent == components[largestIndex(components, 2, 1)]
           inLargest == {largestComponent[i] : i \in DOMAIN largestComponent}
           strays == filter(territory, {territory[i] : i \in DOMAIN territory} \ inLargest)
       IN  IF Len(components) = 0
             THEN enforceFrom(p + 1, territories, Append(contiguous, <<>>))
             ELSE enforceFrom(p + 1, territories,
                    pushStraysFrom(strays, 1, Append(contiguous, largestComponent)))

enforceContiguity(territories) == enforceFrom(1, territories, <<>>)

\* The units the random distribution of 4 units a hex leaves on the hex at
\* position i of a territory of len hexes, before empty hexes are set to 1:
\* spread evenly, or packed on the first hexes of the territory.
spreadUnits(spread, len, i) ==
  LET full == (4 * len) \div MaxUnits
  IN  IF spread = "even" THEN 4
      ELSE IF i <= full THEN MaxUnits
      ELSE IF i = full + 1 THEN 4 * len - MaxUnits * full
      ELSE 0

\* Players are numbered from 0: territories[p] belongs to player p - 1.
assignPlayersToTerritories(cells, territories, spread) ==
  LET holders(cell) == {p \in DOMAIN territories :
                          \E i \in DOMAIN territories[p] : territories[p][i] = coordOf(cell)}
      holder(cell) == CHOOSE p \in holders(cell) : \A o \in holders(cell) : o <= p
      place(cell) == CHOOSE i \in DOMAIN territories[holder(cell)] :
                       territories[holder(cell)][i] = coordOf(cell)
      dealt(cell) == spreadUnits(spread, Len(territories[holder(cell)]), place(cell))
      assign(cell) ==
        IF holders(cell) = {} THEN cell
        ELSE [cell EXCEPT !.owner = holder(cell) - 1,
                          !.units = IF dealt(cell) = 0 THEN 1 ELSE dealt(cell)]
  IN  [i \in DOMAIN cells |-> assign(cells[i])]

\* splitTerritory refusing a land of exactly minTerritorySize * playerCount
\* cells as well.
splitTerritoryAtMost(cells, config, rng, spread) ==
  LET landCells == filter(cells, {c \in {cells[i] : i \in DOMAIN cells} : c.land})
      landHexes == [i \in DOMAIN landCells |-> coordOf(landCells[i])]
      seeds == findOptimalSeeds(landHexes, config.playerCount)
      split == voronoiSplit(landHexes, seeds, rng, 0)
      balanced == balanceTerritories(split.territories, config.playerCount, rng, split.k)
      contiguousTerritories == enforceContiguity(balanced.territories)
  IN  IF Len(landCells) <= config.minTerritorySize * config.playerCount
        THEN [error |-> TRUE, cells |-> cells]
        ELSE [error |-> FALSE,
              cells |-> assignPlayersToTerritories(cells, contiguousTerritories, spread)]

\* The cells returned, or error when the call throws.
splitTerritory(cells, config, rng, spread) ==
  LET landCells == filter(cells, {c \in {cells[i] : i \in DOMAIN cells} : c.land})
      landHexes == [i \in DOMAIN landCells |-> coordOf(landCells[i])]
      seeds == findOptimalSeeds(landHexes, config.playerCount)
      split == voronoiSplit(landHexes, seeds, rng, 0)
      balanced == balanceTerritories(split.territories, config.playerCount, rng, split.k)
      contiguousTerritories == enforceContiguity(balanced.territories)
  IN  IF Len(landCells) < config.minTerritorySize * config.playerCount
        THEN [error |-> TRUE, cells |-> cells]
        ELSE [error |-> FALSE,
              cells |-> assignPlayersToTerritories(cells, contiguousTerritories, spread)]

(* ---------------------------------------------------------------------- *)
(* MapGenerator (core/map.ts)                                              *)
(* ---------------------------------------------------------------------- *)
\* floodFill, the `for (const neighbor of neighbors)` loop.
RECURSIVE floodNeighbors(_, _, _, _)
floodNeighbors(neighbors, i, hexSet, st) ==
  IF i > Len(neighbors) THEN st
  ELSE LET neighbor == neighbors[i]
       IN  IF neighbor \notin st.visited /\ neighbor \in hexSet
             THEN floodNeighbors(neighbors, i + 1, hexSet,
                    [visited |-> st.visited \cup {neighbor},
                     queue |-> Append(st.queue, neighbor)])
             ELSE floodNeighbors(neighbors, i + 1, hexSet, st)

\* floodFill, the `while (queue.length > 0)` loop.
RECURSIVE floodQueue(_, _, _, _)
floodQueue(queue, component, visited, hexSet) ==
  IF queue = <<>> THEN [component |-> component, visited |-> visited]
  ELSE LET current == Head(queue)
           st == floodNeighbors(getNeighbors(current), 1, hexSet,
                   [visited |-> visited, queue |-> Tail(queue)])
       IN  floodQueue(st.queue, Append(component, current), st.visited, hexSet)

\* The component returned and the visited set as the call leaves it.
floodFill(start, hexSet, visited) ==
  IF start \in visited THEN [component |-> <<>>, visited |-> visited]
  ELSE floodQueue(<<start>>, <<>>, visited \cup {start}, hexSet)

\* getLargestComponent, the `for (const hex of hexes)` loop.
RECURSIVE largestFrom(_, _, _, _, _)
largestFrom(hexes, i, hexSet, visited, largestComponent) ==
  IF i > Len(hexes) THEN largestComponent
  ELSE IF hexes[i] \in visited
    THEN largestFrom(hexes, i + 1, hexSet, visited, largestComponent)
  ELSE LET filled == floodFill(hexes[i], hexSet, visited)
       IN  largestFrom(hexes, i + 1, hexSet, filled.visited,
             IF Len(filled.component) > Len(largestComponent)
               THEN filled.component ELSE largestComponent)

\* getLargestComponent keeping the last component found.
getLastComponent(hexes) ==
  LET RECURSIVE lastFrom(_, _, _)
      lastFrom(i, visited, last) ==
        IF i > Len(hexes) THEN last
        ELSE IF hexes[i] \in visited THEN lastFrom(i + 1, visited, last)
        ELSE LET filled == floodFill(hexes[i], {hexes[j] : j \in DOMAIN hexes}, visited)
             IN  lastFrom(i + 1, filled.visited, filled.component)
  IN  lastFrom(1, {}, <<>>)

getLargestComponent(hexes) ==
  IF Len(hexes) = 0 THEN <<>>
  ELSE largestFrom(hexes, 1, {hexes[i] : i \in DOMAIN hexes}, {}, <<>>)

generateCells(landHexes) ==
  [i \in DOMAIN landHexes |->
     [id |-> i - 1, q |-> landHexes[i].q, r |-> landHexes[i].r,
      owner |-> 0, units |-> 1, land |-> TRUE]]

(* ---------------------------------------------------------------------- *)
(* Boards.  A new game lays out land cells with sequential ids, every cell *)
(* owned by an active player, 1..8 units on each, every territory one      *)
(* connected group.  The boards below are small instances of that shape.   *)
(* ---------------------------------------------------------------------- *)
mkCell(id, q, r, owner, units) ==
  [id |-> id, q |-> q, r |-> r, owner |-> owner, units |-> units, land |-> TRUE]

\* A row of three held by player 0 over two cells of player 1:
\*    (0,0) (1,0) (2,0)
\*            (1,1) (2,1)
\* (1,1) touches (1,0) and (2,0), (2,1) touches (2,0); (1,0) is the cut cell
\* of player 0's row.  Player 1 holds a full stack on (1,1).
BoardRow ==
  << mkCell(0, 0, 0, 0, 1), mkCell(1, 1, 0, 0, 2), mkCell(2, 2, 0, 0, 1),
     mkCell(3, 1, 1, 1, 8), mkCell(4, 2, 1, 1, 2) >>

\* Player 0's row extended to twelve cells (0,0) .. (11,0), so that player 0
\* draws two reinforcements a turn; player 1 holds (1,1).
BoardWide ==
  << mkCell(0, 0, 0, 0, 1), mkCell(1, 1, 0, 0, 2), mkCell(2, 2, 0, 0, 1),
     mkCell(3, 1, 1, 1, 2) >>
  \o [i \in 1..9 |-> mkCell(3 + i, 2 + i, 0, 0, 1)]

InitialGames ==
  { [cells |-> BoardRow, players |-> <<0, 1>>, dispatches |-> MaxDispatches],
    [cells |-> BoardWide, players |-> <<0, 1>>, dispatches |-> MaxWideDispatches] }

\* Two cells of player 0 under three of player 1, one unit on each:
\*    (0,0) (1,0) (2,0)
\*       (0,1) (1,1)
\* (1,0) touches all three cells of player 1.
BoardDuel ==
  << mkCell(0, 0, 0, 0, 1), mkCell(1, 1, 0, 0, 1), mkCell(2, 0, 1, 1, 1),
     mkCell(3, 1, 1, 1, 1), mkCell(4, 2, 0, 1, 1) >>

DuelGames ==
  { [cells |-> BoardDuel, players |-> <<0, 1>>, dispatches |-> MaxDispatches] }

\* Payload ids dispatched: the cell ids up to MaxPayloadId and one id no
\* cell has.
NoSuchCell == 99
PayloadIds(s) ==
  {s.cells[i].id : i \in {j \in DOMAIN s.cells : s.cells[j].id <= MaxPayloadId}}
    \cup {NoSuchCell}
\* unitCount payloads of MOVE.
MoveCounts == 0..MaxMoveCount
\* The faces one roll shows: <<face of every attacker die, face of every
\* defender die>>.
DiceFaces == {<<DieSides, 1>>, <<1, DieSides>>}

\* The smallest draw that shows the face.
drawFor(face) == ((face - 1) * RngSteps + DieSides - 1) \div DieSides

\* The draws of one roll when the attacker throws n dice showing faces[1]
\* and the defender's dice show faces[2].
rngStream(n, faces) ==
  [i \in 1..(2 * MaxUnits) |-> drawFor(IF i <= n THEN faces[1] ELSE faces[2])]

\* The streams a roll from cell fromId of s can draw.
RngStreams(s, fromId) ==
  LET fromCell == findCell(s.cells, fromId)
      n == IF fromCell = None THEN 0 ELSE fromCell[1].units
  IN  {rngStream(n, faces) : faces \in DiceFaces}

(* ---------------------------------------------------------------------- *)
(* gameReducer (state.tsx)                                                 *)
(* ---------------------------------------------------------------------- *)
\* newGame starting every game on the three reinforcements of initialState.
newGameThreeReinforcements(game, winGoal) ==
  [cells |-> game.cells,
   players |-> game.players,
   current |-> 0,
   phase |-> "reinforce",
   reinfLeft |-> 3,
   actionsLeft |-> ActionsPerTurn,
   round |-> 1,
   selected |-> None,
   winGoal |-> winGoal,
   lastDiceRoll |-> None,
   pendingCombatResult |-> None]

\* NEW_GAME: the state returned for a generated board.
newGame(game, winGoal) ==
  LET player0HexCount ==
        Len(filter(game.cells, {game.cells[i] : i \in {j \in DOMAIN game.cells : game.cells[j].owner = 0}}))
  IN  [cells |-> game.cells,
       players |-> game.players,
       current |-> 0,
       phase |-> "reinforce",
       reinfLeft |-> Max(1, player0HexCount \div ReinfDivisor),
       actionsLeft |-> ActionsPerTurn,
       round |-> 1,
       selected |-> None,
       winGoal |-> winGoal,
       lastDiceRoll |-> None,
       pendingCombatResult |-> None]

\* The GameState stored in pendingCombatResult.  The stored object carries
\* its own lastDiceRoll and pendingCombatResult fields; APPLY_COMBAT_RESULT
\* overwrites both with null when it spreads the object, and nothing else
\* reads them, so they are kept as null here.
held(s) == Some([s EXCEPT !.lastDiceRoll = None, !.pendingCombatResult = None])

\* The state useReducer starts from, before any NEW_GAME.
initialState ==
  [cells |-> <<>>,
   players |-> <<0, 1>>,
   current |-> 0,
   phase |-> "reinforce",
   reinfLeft |-> 3,
   actionsLeft |-> ActionsPerTurn,
   round |-> 1,
   selected |-> None,
   winGoal |-> 10,
   lastDiceRoll |-> None,
   pendingCombatResult |-> None]

\* The game started on one of the boards of games.
StartOn(games) ==
  \E game \in games :
    /\ state = newGame(game, WinGoal)
    /\ scores = [p \in PlayerIds |-> 0]
    /\ budget = game.dispatches
    /\ call = None
    /\ ret = None

Init == StartOn(InitialGames)

\* dispatch(action): one more action goes through the reducer.
Dispatched ==
  /\ budget > 0
  /\ budget' = budget - 1
  /\ UNCHANGED <<call, ret>>

REINFORCE(cellId) ==
  /\ Dispatched
  /\ state' = reinforce(state, cellId)
  /\ UNCHANGED scores

\* case 'ATTACK': the state returned and the scores object afterwards.
reduceAttack(st, sc, fromId, toId, rng) ==
  LET result == attack(st, sc, fromId, toId, rng)
  IN  [state |-> [st EXCEPT !.lastDiceRoll = Some(result.dice),
                            !.pendingCombatResult = held(result.state)],
       scores |-> result.scores]

ATTACK(fromId, toId, rng) ==
  LET next == reduceAttack(state, scores, fromId, toId, rng)
  IN  /\ Dispatched
      /\ state' = next.state
      /\ scores' = next.scores

\* reduceApplyCombatResult spreading the result without clearing
\* pendingCombatResult.
reduceApplyKeepsPending(st, sc) ==
  IF st.pendingCombatResult # None
    THEN LET resultState == st.pendingCombatResult[1]
         IN  [state |-> [resultState EXCEPT !.lastDiceRoll = None,
                                            !.pendingCombatResult = st.pendingCombatResult],
              scores |-> updateExclaveScores(resultState, sc)]
    ELSE [state |-> st, scores |-> sc]

\* reduceApplyCombatResult without the call of updateExclaveScores.
reduceApplyKeepsScores(st, sc) ==
  IF st.pendingCombatResult # None
    THEN LET resultState == st.pendingCombatResult[1]
         IN  [state |-> [resultState EXCEPT !.lastDiceRoll = None,
                                            !.pendingCombatResult = None],
              scores |-> sc]
    ELSE [state |-> st, scores |-> sc]

\* case 'APPLY_COMBAT_RESULT': the state returned and the scores object
\* afterwards.
reduceApplyCombatResult(st, sc) ==
  IF st.pendingCombatResult # None
    THEN LET resultState == st.pendingCombatResult[1]
         IN  [state |-> [resultState EXCEPT !.lastDiceRoll = None,
                                            !.pendingCombatResult = None],
              scores |-> updateExclaveScores(resultState, sc)]
    ELSE [state |-> st, scores |-> sc]

APPLY_COMBAT_RESULT ==
  LET next == reduceApplyCombatResult(state, scores)
  IN  /\ Dispatched
      /\ state' = next.state
      /\ scores' = next.scores

MOVE(fromId, toId, unitCount) ==
  /\ Dispatched
  /\ state' = move(state, fromId, toId, unitCount)
  /\ UNCHANGED scores

END_TURN ==
  /\ Dispatched
  /\ state' = endTurn(state)
  /\ UNCHANGED scores

Reinforce == \E cellId \in PayloadIds(state) : REINFORCE(cellId)

Attack ==
  \E fromId \in PayloadIds(state), toId \in PayloadIds(state) :
    \E rng \in RngStreams(state, fromId) : ATTACK(fromId, toId, rng)

Apply == APPLY_COMBAT_RESULT

Move ==
  \E fromId \in PayloadIds(state), toId \in PayloadIds(state), unitCount \in MoveCounts :
    MOVE(fromId, toId, unitCount)

EndTurn == END_TURN

Next ==
  \/ Reinforce
  \/ Attack
  \/ Apply
  \/ Move
  \/ EndTurn

Spec == Init /\ [][Next]_vars

\* Three players: player 0 on (0,0), player 2 on (0,1), player 1 on the row
\* (1,0) .. (12,0), twelve cells that earn two reinforcements a turn.
\*    (0,0) (1,0) (2,0) .. (12,0)
\*       (0,1)
BoardTurns ==
  << mkCell(0, 0, 0, 0, 1), mkCell(1, 1, 0, 1, 1), mkCell(2, 0, 1, 2, 1) >>
  \o [i \in 1..11 |-> mkCell(2 + i, 1 + i, 0, 1, 1)]

TurnGames ==
  { [cells |-> BoardTurns, players |-> <<0, 1, 2>>, dispatches |-> MaxTurnDispatches] }

InitTurns == StartOn(TurnGames)

SpecTurns == InitTurns /\ [][Next]_vars

\* The boards handed to updateExclaveScores: the seven-hex flower, (0,0) and
\* the six hexes around it, every hex owned by one of three players.
FlowerHexes == <<Hex(0, 0)>> \o getNeighbors(Hex(0, 0))

FlowerBoards ==
  {[i \in DOMAIN FlowerHexes |-> mkCell(i - 1, FlowerHexes[i].q, FlowerHexes[i].r, owners[i], 1)] :
     owners \in [DOMAIN FlowerHexes -> PlayerIds]}

\* updateExclaveScores(newState) is about to run on a state whose scores are
\* those of an earlier board.
InitScoring ==
  \E board \in FlowerBoards, winGoal \in 1..WinGoal :
    /\ state = newGame([cells |-> board, players |-> <<0, 1, 2>>], winGoal)
    /\ scores = [p \in PlayerIds |-> 0]
    /\ budget = 1
    /\ call = None
    /\ ret = None

\* The call of updateExclaveScores.
ScoreBoard ==
  /\ Dispatched
  /\ scores' = updateExclaveScores(state, scores)
  /\ UNCHANGED state

NextScoring == ScoreBoard

SpecScoring == InitScoring /\ [][NextScoring]_vars

\* The hexes a land map is drawn from, in the order of their keys.
RECURSIVE gridFrom(_, _)
gridFrom(q, r) ==
  IF q > MaxCoord THEN <<>>
  ELSE IF r > 2 THEN gridFrom(q + 1, 0)
  ELSE <<Hex(q, r)>> \o gridFrom(q, r + 1)

GridHexes == gridFrom(0, 0)

\* The land maps generateLandmass hands to getLargestComponent: the keys of
\* landMap in insertion order, no key twice.  Every subset of the grid, in
\* grid order.
LandMaps ==
  {filter(GridHexes, {GridHexes[i] : i \in picked}) : picked \in SUBSET DOMAIN GridHexes}

\* A call outside a game: one step that returns.
Returned ==
  /\ budget > 0
  /\ budget' = budget - 1
  /\ UNCHANGED <<state, scores, call>>

InitLand ==
  /\ state = initialState
  /\ scores = [p \in PlayerIds |-> 0]
  /\ budget = 1
  /\ call \in {Some([landHexes |-> hexes]) : hexes \in LandMaps}
  /\ ret = None

\* return this.getLargestComponent(landHexes)
LargestComponent ==
  /\ Returned
  /\ ret' = Some(getLargestComponent(call[1].landHexes))

NextLand == LargestComponent

SpecLand == InitLand /\ [][NextLand]_vars

\* The membership predicates handed to getConnectedComponents, each as the
\* set of grid hexes it accepts: every hex, the hexes off the middle row,
\* the hexes with q + r even, and none.
Predicates ==
  LET grid == {GridHexes[i] : i \in DOMAIN GridHexes}
  IN  {grid, {h \in grid : h.r # 1}, {h \in grid : (h.q + h.r) % 2 = 0}, {}}

\* The calls of getConnectedComponents: a list of hexes of the grid, as it
\* is or with its first hex listed once more at the end, and a predicate.
ComponentCalls ==
  {[hexes |-> hexes, ownedBy |-> ownedBy] :
     hexes \in LandMaps \cup {Append(m, m[1]) : m \in LandMaps \ {<<>>}},
     ownedBy \in Predicates}

InitComponents ==
  /\ state = initialState
  /\ scores = [p \in PlayerIds |-> 0]
  /\ budget = 1
  /\ call \in {Some(c) : c \in ComponentCalls}
  /\ ret = None

\* getConnectedComponents(hexes, ownedBy)
ConnectedComponents ==
  /\ Returned
  /\ ret' = Some(getConnectedComponents(call[1].hexes, call[1].ownedBy))

NextComponents == ConnectedComponents

SpecComponents == InitComponents /\ [][NextComponents]_vars

\* A land map of the size a game is played on: the strip (0,0) .. (14,0)
\* with a tendril of two hexes, (8,-1) and (8,-2), off its middle.
StripMap == [i \in 1..15 |-> Hex(i - 1, 0)] \o <<Hex(8, -1), Hex(8, -2)>>

\* The calls of splitTerritory: the cells generated for the landmass of a
\* land map, a cycle of draws each below or above one half, and one of the
\* two unit spreads; two or three players on the maps of the grid, and the
\* two-player configuration of NEW_GAME on the strip.
SplitCalls ==
  {[cells |-> generateCells(getLargestComponent(hexes)),
    config |-> [playerCount |-> n, minTerritorySize |-> MinTerritorySize],
    rng |-> draws,
    spread |-> spread] :
     hexes \in LandMaps, n \in {2, 3},
     draws \in [1..SplitDraws -> {0, RngSteps - 1}], spread \in {"even", "packed"}}
  \cup
  {[cells |-> generateCells(getLargestComponent(StripMap)),
    config |-> [playerCount |-> 2, minTerritorySize |-> 8],
    rng |-> draws,
    spread |-> spread] :
     draws \in [1..SplitDraws -> {0, RngSteps - 1}], spread \in {"even", "packed"}}

InitSplit ==
  /\ state = initialState
  /\ scores = [p \in PlayerIds |-> 0]
  /\ budget = 1
  /\ call \in {Some(c) : c \in SplitCalls}
  /\ ret = None

\* splitter.splitTerritory(cells, config)
SplitTerritory ==
  /\ Returned
  /\ ret' = Some(splitTerritory(call[1].cells, call[1].config, call[1].rng, call[1].spread))

NextSplit == SplitTerritory

SpecSplit == InitSplit /\ [][NextSplit]_vars

(* ---------------------------------------------------------------------- *)
(* A session: useReducer(gameReducer, initialState) and every action of    *)
(* the reducer, NEW_GAME included.  An absent (undefined) argument is null. *)
(* ---------------------------------------------------------------------- *)
\* `seed || Math.random() * 1000000`: the seed unless it is undefined or 0.
seedOr(seed, random) == IF seed = None \/ seed = Some(0) THEN random ELSE seed[1]

\* `winGoal || 10`
winGoalOr(winGoal) == IF winGoal = None \/ winGoal = Some(0) THEN 10 ELSE winGoal[1]

\* createSeededRandom(seed): the stream of draws of the generator.  Math.sin
\* is not evaluated; the stream is a fixed function of the seed, a different
\* one for every seed used here.
createSeededRandom(seed) ==
  [i \in 1..(2 * MaxUnits) |-> (seed * seed * 5 + seed * i * 3 + i) % RngSteps]

\* The land map of a blob w hexes wide, in the order its keys are set: q in
\* the outer loop, r in the inner one.
blobHexes(w) == [i \in 1..(3 * w) |-> Hex((i - 1) \div 3, (i - 1) % 3)]

\* generateLandmass as a function of the generator's draws.  The blobs,
\* tendrils and smoothing are not followed hex by hex: the land map is one
\* of three maps of the size of the game, picked by the first draw as
\* numBlobs is, and its largest component is returned.
generateLandmass(config, rng) ==
  LET numBlobs == 2 + (draw(rng, 0) * 3) \div RngSteps
  IN  getLargestComponent(blobHexes(config.width \div 2 + numBlobs))

\* The unit distribution as a function of the splitter's draws.
spreadOf(rng) == IF 2 * draw(rng, 1) < RngSteps THEN "even" ELSE "packed"

\* case 'NEW_GAME': the state returned, the stream of the new gameEngine,
\* and error when splitTerritory throws.  randoms are the values of
\* Math.random() * 1000000 in the constructors of the engine, the map
\* generator and the splitter.
reduceNewGame(payload, randoms) ==
  LET playerCount == payload.playerCount
      engineRng == createSeededRandom(seedOr(payload.seed, randoms[1]))
      mapRng == createSeededRandom(seedOr(payload.seed, randoms[2]))
      splitRng == createSeededRandom(seedOr(payload.seed, randoms[3]))
      mapSize == IF playerCount = 2 THEN [width |-> 8, height |-> 8]
                 ELSE [width |-> 12, height |-> 10]
      landHexes == generateLandmass(mapSize, mapRng)
      cells == generateCells(landHexes)
      splitCells == splitTerritory(cells,
                      [playerCount |-> playerCount, minTerritorySize |-> 8],
                      splitRng, spreadOf(splitRng))
      players == IF playerCount = 3 THEN <<0, 1, 2>> ELSE <<0, 1>>
  IN  [error |-> splitCells.error,
       state |-> newGame([cells |-> splitCells.cells, players |-> players],
                         winGoalOr(payload.winGoal)),
       engine |-> engineRng]

\* useGameActions.newGame: the payload dispatched.
newGamePayload(playerCount, seed, winGoal, random) ==
  [playerCount |-> playerCount,
   seed |-> Some(seedOr(seed, random)),
   winGoal |-> Some(winGoalOr(winGoal))]

\* The arguments of newGame.
PlayerCounts == {2, 3}
Seeds == {None} \cup {Some(n) : n \in 0..MaxSeed}
RandomSeeds == {MaxSeed + 1, MaxSeed + 2}
WinGoals == {None, Some(0), Some(WinGoal)}

\* The payloads newGame dispatches.
Payloads ==
  {newGamePayload(n, seed, w, random) :
     n \in PlayerCounts, seed \in Seeds, w \in WinGoals, random \in RandomSeeds}

\* What NEW_GAME makes of each payload.  No payload of newGame holds a
\* falsy seed, so no constructor calls Math.random.
NewGames == [payload \in Payloads |-> reduceNewGame(payload, <<0, 0, 0>>)]

\* newGame(playerCount, seed, winGoal), called once here and once, with the
\* same arguments, in another session: random and otherRandom are what
\* Math.random() * 1000000 yields in each.  call keeps the arguments and ret
\* what the other session constructed.
NEW_GAME(playerCount, seed, winGoal, random, otherRandom) ==
  \E made \in {NewGames[newGamePayload(playerCount, seed, winGoal, random)]},
     other \in {NewGames[newGamePayload(playerCount, seed, winGoal, otherRandom)]} :
    /\ budget > 0
    /\ ~made.error
    /\ budget' = budget - 1
    /\ state' = made.state
    /\ scores' = [p \in PlayerIds |-> 0]
    /\ call' = Some([playerCount |-> playerCount, seed |-> seed, winGoal |-> winGoal])
    /\ ret' = Some([cells |-> made.state.cells, engine |-> made.engine,
                    otherCells |-> other.state.cells, otherEngine |-> other.engine])

SELECT_CELL(cellId) ==
  /\ Dispatched
  /\ state' = [state EXCEPT !.selected = Some(cellId)]
  /\ UNCHANGED scores

DESELECT ==
  /\ Dispatched
  /\ state' = [state EXCEPT !.selected = None]
  /\ UNCHANGED scores

NewGame ==
  \E playerCount \in PlayerCounts, seed \in Seeds, winGoal \in WinGoals :
    \E random \in RandomSeeds, otherRandom \in RandomSeeds :
      NEW_GAME(playerCount, seed, winGoal, random, otherRandom)

SelectCell == \E cellId \in PayloadIds(state) : SELECT_CELL(cellId)

Deselect == DESELECT

InitSession ==
  /\ state = initialState
  /\ scores = [p \in PlayerIds |-> 0]
  /\ budget = MaxSessionDispatches
  /\ call = None
  /\ ret = None

NextSession ==
  \/ NewGame
  \/ Reinforce
  \/ Attack
  \/ Apply
  \/ Move
  \/ EndTurn
  \/ SelectCell
  \/ Deselect

SpecSession == InitSession /\ [][NextSession]_vars

\* A game in which cells are selected and deselected between the moves.
SelectGames ==
  { [cells |-> BoardDuel, players |-> <<0, 1>>, dispatches |-> MaxSelectDispatches] }

InitSelect == StartOn(SelectGames)

NextSelect ==
  \/ Reinforce
  \/ Attack
  \/ Apply
  \/ Move
  \/ EndTurn
  \/ SelectCell
  \/ Deselect

SpecSelect == InitSelect /\ [][NextSelect]_vars

\* A game followed for its dice: every die of a roll is drawn on its own.
DiceGames ==
  { [cells |-> BoardDuel, players |-> <<0, 1>>, dispatches |-> MaxDiceDispatches] }

\* The draws a die is followed for: the lowest, one in between and the
\* highest.
RngDraws == {0, RngSteps \div 3, RngSteps - 1}

\* The streams an attack from fromId on toId can draw: one draw of RngDraws
\* for each die thrown.
AnyRolls(s, fromId, toId) ==
  LET fromCell == findCell(s.cells, fromId)
      toCell == findCell(s.cells, toId)
      thrown == IF fromCell = None \/ toCell = None THEN 0
                ELSE fromCell[1].units + toCell[1].units
  IN  {[i \in 1..(2 * MaxUnits) |-> IF i <= thrown THEN draws[i] ELSE 0] :
         draws \in [1..thrown -> RngDraws]}

AttackAnyRoll ==
  \E fromId \in PayloadIds(state), toId \in PayloadIds(state) :
    \E rng \in AnyRolls(state, fromId, toId) : ATTACK(fromId, toId, rng)

InitDice == StartOn(DiceGames)

NextDice ==
  \/ Reinforce
  \/ AttackAnyRoll
  \/ Apply

SpecDice == InitDice /\ [][NextDice]_vars

\* The same reducer on the duel board, where a cell emptied by a win from a
\* single unit comes under attack in the next player's turn.
InitDuel == StartOn(DuelGames)

SpecDuel == InitDuel /\ [][Next]_vars

\* The hex functions called on their own: a and b range over the hexes
\* within HexRange of the origin on both axes.
HexCoords == {Hex(q, r) : q \in -HexRange..HexRange, r \in -HexRange..HexRange}

InitHex ==
  /\ state = initialState
  /\ scores = [p \in PlayerIds |-> 0]
  /\ budget = 1
  /\ call \in {Some([a |-> a, b |-> b]) : a \in HexCoords, b \in HexCoords}
  /\ ret = None

\* new Hex(a).distance(new Hex(b)) and back, areAdjacent(a, b) and
\* getNeighbors(a).
HexDistance ==
  /\ Returned
  /\ ret' = Some([distance |-> distance(call[1].a, call[1].b),
                  back |-> distance(call[1].b, call[1].a),
                  adjacent |-> areAdjacent(call[1].a, call[1].b),
                  neighbors |-> getNeighbors(call[1].a)])

NextHex == HexDistance

SpecHex == InitHex /\ [][NextHex]_vars

\* A game started with winGoal 1 on the row board: the first exclave ends
\* it.
InitOver ==
  /\ state = newGame([cells |-> BoardRow, players |-> <<0, 1>>], 1)
  /\ scores = [p \in PlayerIds |-> 0]
  /\ budget = MaxOverDispatches
  /\ call = None
  /\ ret = None

SpecOver == InitOver /\ [][Next]_vars

(* ---------------------------------------------------------------------- *)
(* The game played through the interface: the action creators of           *)
(* useGameActions, which dispatch what the engine accepts, and the dice    *)
(* panel (ui/DicePanel.tsx).  ret holds the React state of the panel.      *)
(* ---------------------------------------------------------------------- *)
\* useState(false) for isVisible and useState(null) for currentRoll.  The
\* flags isAnimating and showOutcome only pick what the open panel draws.
closedPanel == [isVisible |-> FALSE, currentRoll |-> None]

\* The effect of the panel, run when state.lastDiceRoll is another object
\* than at the last render.
dicePanelEffect(panel, lastDiceRoll) ==
  IF lastDiceRoll # None /\ Len(lastDiceRoll[1].attacker) > 0
    THEN [isVisible |-> TRUE, currentRoll |-> lastDiceRoll]
    ELSE panel

\* `if (!isVisible || !currentRoll) return null`: the panel, and with it
\* the close button and the backdrop, is rendered.
panelRendered(panel) == panel.isVisible /\ panel.currentRoll # None

actionsReinforce(cellId) ==
  /\ canReinforce(state, cellId)
  /\ REINFORCE(cellId)

\* attack of useGameActions; the ATTACK it dispatches stores a new
\* lastDiceRoll, so the effect of the panel runs.
actionsAttack(fromId, toId, rng) ==
  LET next == reduceAttack(state, scores, fromId, toId, rng)
  IN  /\ canAttack(state, fromId, toId)
      /\ budget > 0
      /\ budget' = budget - 1
      /\ state' = next.state
      /\ scores' = next.scores
      /\ ret' = Some(dicePanelEffect(ret[1], next.state.lastDiceRoll))
      /\ UNCHANGED call

actionsMove(fromId, toId, unitCount) ==
  /\ canMove(state, fromId, toId)
  /\ MOVE(fromId, toId, unitCount)

actionsEndTurn ==
  /\ canEndTurn(state)
  /\ END_TURN

\* handleClose, on the close button or the backdrop of the rendered panel:
\* setIsVisible(false) and dispatch APPLY_COMBAT_RESULT.  lastDiceRoll is
\* null afterwards and the effect changes nothing.
handleClose ==
  LET next == reduceApplyCombatResult(state, scores)
  IN  /\ panelRendered(ret[1])
      /\ budget > 0
      /\ budget' = budget - 1
      /\ state' = next.state
      /\ scores' = next.scores
      /\ ret' = Some(dicePanelEffect([ret[1] EXCEPT !.isVisible = FALSE],
                                     next.state.lastDiceRoll))
      /\ UNCHANGED call

PanelReinforce == \E cellId \in PayloadIds(state) : actionsReinforce(cellId)

PanelAttack ==
  \E fromId \in PayloadIds(state), toId \in PayloadIds(state) :
    \E rng \in RngStreams(state, fromId) : actionsAttack(fromId, toId, rng)

PanelMove ==
  \E fromId \in PayloadIds(state), toId \in PayloadIds(state), unitCount \in MoveCounts :
    actionsMove(fromId, toId, unitCount)

PanelEndTurn == actionsEndTurn

PanelClose == handleClose

\* The game on the duel board with the panel mounted and closed.
InitPanel ==
  /\ state = newGame([cells |-> BoardDuel, players |-> <<0, 1>>], WinGoal)
  /\ scores = [p \in PlayerIds |-> 0]
  /\ budget = MaxPanelDispatches
  /\ call = None
  /\ ret = Some(closedPanel)

NextPanel ==
  \/ PanelReinforce
  \/ PanelAttack
  \/ PanelMove
  \/ PanelEndTurn
  \/ PanelClose

SpecPanel == InitPanel /\ [][NextPanel]_vars

(* ---------------------------------------------------------------------- *)
(* Properties                                                              *)
(* ---------------------------------------------------------------------- *)
HasPending == state.pendingCombatResult # None
Pending == state.pendingCombatResult[1]
\* The live state shows the roll of a dice-rolled attack.
DiceRolled == state.lastDiceRoll # None /\ Len(state.lastDiceRoll[1].attacker) > 0
Dice == state.lastDiceRoll[1]

\* C1: every cell of the live board, and of a pending combat result, holds
\* between 0 and 8 units, whatever actions (valid or not) were dispatched.
C1_UnitBounds ==
  /\ \A c \in Cells(state) : c.units >= 0 /\ c.units <= MaxUnits
  /\ HasPending => \A c \in Cells(Pending) : c.units >= 0 /\ c.units <= MaxUnits

\* A lost roll against a full stack is pending: the origin flips to the
\* defender, whose 8-unit cell stays at 8.
C1_Witness ==
  /\ DiceRolled /\ HasPending /\ ~Dice.attackerWins
  /\ \E i \in DOMAIN state.cells, j \in DOMAIN state.cells :
       /\ state.cells[i].owner = Dice.attackerId
       /\ Pending.cells[i].owner = Dice.defenderId
       /\ state.cells[j].owner = Dice.defenderId
       /\ areAdjacent(coordOf(state.cells[i]), coordOf(state.cells[j]))
       /\ state.cells[j].units = MaxUnits
       /\ Pending.cells[j].units = MaxUnits

\* The number of exclaves of player p on the cells of s.
ExclaveCount(s, p) == Len(detectExclaves(s, p))
Players(s) == {s.players[i] : i \in DOMAIN s.players}

\* C2: in every live state, every active player's score is the number of
\* exclaves that player has on the live board.
C2_ScoresMatchLiveBoard ==
  \A p \in Players(state) : scores[p] = ExclaveCount(state, p)

\* A dispatch whose canX predicate is false for its payload.
InvalidDispatch ==
  \/ \E c \in PayloadIds(state) : ~canReinforce(state, c) /\ REINFORCE(c)
  \/ \E f \in PayloadIds(state), t \in PayloadIds(state) :
       \E rng \in RngStreams(state, f) : ~canAttack(state, f, t) /\ ATTACK(f, t, rng)
  \/ \E f \in PayloadIds(state), t \in PayloadIds(state), n \in MoveCounts :
       ~canMove(state, f, t) /\ MOVE(f, t, n)
  \/ ~canEndTurn(state) /\ END_TURN

\* C3: REINFORCE, ATTACK, MOVE and END_TURN dispatched with a payload their
\* canX predicate rejects leave every field of the game state as it was.
C3_InvalidDispatchIsNoOp ==
  [][InvalidDispatch => UNCHANGED <<state, scores>>]_vars

\* A dispatch of ATTACK that canAttack accepts.
ValidAttack ==
  \E f \in PayloadIds(state), t \in PayloadIds(state) :
    \E rng \in RngStreams(state, f) : canAttack(state, f, t) /\ ATTACK(f, t, rng)

\* C4: a valid ATTACK leaves the live board as it was: cells, current, phase,
\* reinfLeft, actionsLeft, round and scores are unchanged.
C4_AttackLeavesLiveBoard ==
  [][ValidAttack =>
       /\ state'.cells = state.cells
       /\ state'.current = state.current
       /\ state'.phase = state.phase
       /\ state'.reinfLeft = state.reinfLeft
       /\ state'.actionsLeft = state.actionsLeft
       /\ state'.round = state.round
       /\ scores' = scores]_vars

\* C5: APPLY_COMBAT_RESULT with a pending result yields the state the attack
\* computed (its cells, actionsLeft, current, phase) with lastDiceRoll and
\* pendingCombatResult null; with nothing pending it changes nothing; a second
\* APPLY_COMBAT_RESULT right after the first changes nothing.
C5_ApplyCommitsOnce ==
  LET once == reduceApplyCombatResult(state, scores)
      twice == reduceApplyCombatResult(once.state, once.scores)
  IN  /\ HasPending =>
           /\ once.state.cells = Pending.cells
           /\ once.state.actionsLeft = Pending.actionsLeft
           /\ once.state.current = Pending.current
           /\ once.state.phase = Pending.phase
           /\ once.state.lastDiceRoll = None
           /\ once.state.pendingCombatResult = None
      /\ ~HasPending => once.state = state /\ once.scores = scores
      /\ twice = once

\* A lost attack that cut player 0's row has been committed: nothing is
\* pending and player 0 holds an exclave.
C5_Witness ==
  /\ ~HasPending
  /\ state.lastDiceRoll = None
  /\ ExclaveCount(state, 0) = 1
  /\ scores[0] = 1

\* C6: no transition writes into the GameState it received: the scores
\* object that state refers to reads the same after the transition.
C6_ReceivedStateUntouched ==
  [][\A p \in PlayerIds : scores'[p] = scores[p]]_vars

\* C7: once the dice of an attack are rolled, every later dispatch the canX
\* predicates accept (a second ATTACK included) either keeps that roll and
\* its pending result or commits exactly that result.
C7_RolledOutcomeIsCommitted ==
  [][(DiceRolled /\ ~InvalidDispatch) =>
       \/ /\ state'.pendingCombatResult = state.pendingCombatResult
          /\ state'.lastDiceRoll = state.lastDiceRoll
       \/ /\ state'.pendingCombatResult = None
          /\ state'.cells = Pending.cells
          /\ state'.actionsLeft = Pending.actionsLeft]_vars

\* C8: canReinforce holds exactly in the reinforce phase with reinfLeft > 0
\* for a land cell of the current player below 8 units; reinforce then adds
\* one unit to that cell only, takes one from reinfLeft and moves to the
\* attack phase exactly when reinfLeft reaches 0; at 8 units it does nothing.
C8_Reinforce ==
  \A c \in PayloadIds(state) :
    LET cell == findCell(state.cells, c)
        after == reinforce(state, c)
        allowed == /\ state.phase = "reinforce"
                   /\ state.reinfLeft > 0
                   /\ cell # None
                   /\ cell[1].land
                   /\ cell[1].owner = state.current
                   /\ cell[1].units < 8
    IN  /\ canReinforce(state, c) <=> allowed
        /\ allowed =>
             /\ after.cells =
                  [i \in DOMAIN state.cells |->
                     IF state.cells[i].id = c
                       THEN [state.cells[i] EXCEPT !.units = state.cells[i].units + 1]
                       ELSE state.cells[i]]
             /\ after.reinfLeft = state.reinfLeft - 1
             /\ (after.phase = "attack") <=> (after.reinfLeft = 0)
             /\ after.phase \in {"attack", state.phase}
             /\ after = [state EXCEPT !.cells = after.cells,
                                      !.reinfLeft = after.reinfLeft,
                                      !.phase = after.phase]
        /\ (cell # None /\ cell[1].units = 8) => after = state

\* On the twelve-cell row the first of two reinforcements has been placed:
\* one is left and the phase is still reinforce.
C8_Witness ==
  /\ Len(state.cells) = Len(BoardWide)
  /\ ~HasPending
  /\ state.phase = "reinforce"
  /\ state.reinfLeft = 1
  /\ \E i \in DOMAIN state.cells : state.cells[i].units = BoardWide[i].units + 1

C10_WonAttack ==
  \A f \in PayloadIds(state), t \in PayloadIds(state) :
    \A rng \in RngStreams(state, f) :
      LET result == attack(state, scores, f, t, rng)
          fromCell == findCell(state.cells, f)[1]
          toCell == findCell(state.cells, t)[1]
          fromAfter == findCell(result.state.cells, f)[1]
          toAfter == findCell(result.state.cells, t)[1]
      IN  (canAttack(state, f, t) /\ toCell.units > 0 /\ result.dice.attackerWins) =>
            /\ toAfter.owner = state.current
            /\ fromAfter.owner = state.current
            /\ fromCell.units >= 2 =>
                 fromAfter.units = 1 /\ toAfter.units = fromCell.units - 1
            /\ fromCell.units = 1 =>
                 fromAfter.units = 0 /\ toAfter.units = 1

\* A roll won with two or more dice is pending on a board where an earlier
\* win from a single unit has left an emptied cell behind.
C10_Witness ==
  /\ DiceRolled /\ HasPending
  /\ Dice.attackerWins
  /\ Len(Dice.attacker) >= 2
  /\ \E c \in Cells(state) : c.units = 0 /\ c.owner = Dice.attackerId
  /\ \E i \in DOMAIN state.cells :
       /\ state.cells[i].owner = Dice.defenderId
       /\ Pending.cells[i].owner = Dice.attackerId
       /\ Pending.cells[i].units = Len(Dice.attacker) - 1

\* C11: a lost dice-rolled attack gives from to the defender with its units
\* unchanged, leaves to with its owner and min(8, units + 1) units, and
\* changes no other cell.
C11_LostAttack ==
  \A f \in PayloadIds(state), t \in PayloadIds(state) :
    \A rng \in RngStreams(state, f) :
      LET result == attack(state, scores, f, t, rng)
          fromCell == findCell(state.cells, f)[1]
          toCell == findCell(state.cells, t)[1]
          fromAfter == findCell(result.state.cells, f)[1]
          toAfter == findCell(result.state.cells, t)[1]
      IN  (canAttack(state, f, t) /\ toCell.units > 0 /\ ~result.dice.attackerWins) =>
            /\ fromAfter.owner = toCell.owner
            /\ fromAfter.units = fromCell.units
            /\ toAfter.owner = toCell.owner
            /\ toAfter.units = Min(8, toCell.units + 1)
            /\ DOMAIN result.state.cells = DOMAIN state.cells
            /\ \A i \in DOMAIN state.cells :
                 state.cells[i].id \notin {f, t} => result.state.cells[i] = state.cells[i]
            /\ fromAfter = [fromCell EXCEPT !.owner = fromAfter.owner]
            /\ toAfter = [toCell EXCEPT !.units = toAfter.units]

\* A lost roll against a stack below 8 is pending: the origin goes to the
\* defender with the units it had, the defender's cell gains one unit.
C11_Witness ==
  /\ DiceRolled /\ HasPending /\ ~Dice.attackerWins
  /\ \E i \in DOMAIN state.cells, j \in DOMAIN state.cells :
       /\ state.cells[i].owner = Dice.attackerId
       /\ Pending.cells[i].owner = Dice.defenderId
       /\ Pending.cells[i].units = state.cells[i].units
       /\ state.cells[j].owner = Dice.defenderId
       /\ state.cells[j].units = Len(Dice.defender)
       /\ state.cells[j].units < MaxUnits
       /\ Pending.cells[j].units = state.cells[j].units + 1

\* C12: a valid attack on a 0-unit cell captures it with an empty roll, moves
\* from.units - 1 units when from holds two or more (leaving 1) and every unit
\* otherwise (leaving 0), gives to to the current player and leaves
\* actionsLeft as it was; a valid attack on a cell holding units takes exactly
\* one from actionsLeft, won or lost.
C12_AutoCaptureIsFree ==
  \A f \in PayloadIds(state), t \in PayloadIds(state) :
    \A rng \in RngStreams(state, f) :
      LET result == attack(state, scores, f, t, rng)
          fromCell == findCell(state.cells, f)[1]
          toCell == findCell(state.cells, t)[1]
          fromAfter == findCell(result.state.cells, f)[1]
          toAfter == findCell(result.state.cells, t)[1]
      IN  canAttack(state, f, t) =>
            /\ toCell.units = 0 =>
                 /\ result.dice.attacker = <<>> /\ result.dice.defender = <<>>
                 /\ toAfter.owner = state.current
                 /\ fromCell.units >= 2 =>
                      fromAfter.units = 1 /\ toAfter.units = fromCell.units - 1
                 /\ fromCell.units < 2 =>
                      fromAfter.units = 0 /\ toAfter.units = fromCell.units
                 /\ result.state.actionsLeft = state.actionsLeft
            /\ toCell.units >= 1 =>
                 /\ Len(result.dice.attacker) > 0
                 /\ result.state.actionsLeft = state.actionsLeft - 1

\* The auto-capture of an emptied cell from a cell holding one unit is
\* pending: no dice are shown, the unit has moved and left the origin empty,
\* the cell goes to the current player and actionsLeft is what it was.
C12_Witness ==
  /\ HasPending
  /\ state.lastDiceRoll = Some(createEmptyDiceRoll)
  /\ Pending.actionsLeft = state.actionsLeft
  /\ \E i \in DOMAIN state.cells, j \in DOMAIN state.cells :
       /\ state.cells[i].units = 0
       /\ state.cells[i].owner # state.current
       /\ Pending.cells[i].owner = state.current
       /\ Pending.cells[i].units = 1
       /\ state.cells[j].owner = state.current
       /\ state.cells[j].units = 1
       /\ Pending.cells[j].units = 0

C14_Move ==
  \A f \in PayloadIds(state), t \in PayloadIds(state), n \in MoveCounts :
    LET fromCell == findCell(state.cells, f)
        toCell == findCell(state.cells, t)
        after == move(state, f, t, n)
        m == Min(Min(n, fromCell[1].units - 1), 8 - toCell[1].units)
    IN  /\ canMove(state, f, t) <=>
             /\ state.phase = "attack"
             /\ state.actionsLeft > 0
             /\ fromCell # None /\ toCell # None
             /\ fromCell[1].land /\ toCell[1].land
             /\ fromCell[1].owner = state.current
             /\ toCell[1].owner = state.current
             /\ fromCell[1].units > 1
        /\ canMove(state, f, t) =>
             /\ m > 0 =>
                  /\ findCell(after.cells, f)[1].units = fromCell[1].units - m
                  /\ findCell(after.cells, t)[1].units = toCell[1].units + m
                  /\ after.actionsLeft = state.actionsLeft - 1
             /\ m <= 0 => after = state

TurnEnds == canEndTurn(state) /\ END_TURN

\* C16: every accepted END_TURN passes the turn to the next player in the
\* order of the players list, round grows by exactly 1 when the turn passes
\* from the last player to the first, and no other END_TURN and no other
\* action changes round.
C16_TurnRotation ==
  [][LET pos == CHOOSE i \in DOMAIN state.players : state.players[i] = state.current
         last == pos = Len(state.players)
     IN  /\ TurnEnds =>
              /\ state'.current = state.players[IF last THEN 1 ELSE pos + 1]
              /\ state'.round = (IF last THEN state.round + 1 ELSE state.round)
         /\ ~TurnEnds => state'.round = state.round]_vars

\* The hexes of a set that a walk over adjacent hexes of the set reaches
\* from the hexes of seen.
RECURSIVE Reach(_, _)
Reach(hexes, seen) ==
  LET more == {h \in hexes \ seen : \E g \in seen : distance(g, h) = 1}
  IN  IF more = {} THEN seen ELSE Reach(hexes, seen \cup more)

\* The 6-neighbour connected components of a set of hexes.
ComponentSets(hexes) == {Reach(hexes, {h}) : h \in hexes}

\* The land hexes player p owns in s.
OwnedHexes(s, p) == {coordOf(c) : c \in {d \in Cells(s) : d.land /\ d.owner = p}}

HexesOf(seq) == {seq[i] : i \in DOMAIN seq}

\* C20 as stated: for every land map handed to component extraction, the
\* landmass returned is a subset of it, forms exactly one 6-neighbour
\* connected component and is a largest component of the map.
C20_LandmassIsLargestComponent ==
  ret # None =>
    LET land == HexesOf(ret[1])
        map == HexesOf(call[1].landHexes)
    IN  /\ land \subseteq map
        /\ Cardinality(ComponentSets(land)) = 1
        /\ land \in ComponentSets(map)
        /\ \A c \in ComponentSets(map) : Cardinality(c) <= Cardinality(land)

\* C20: for every land map that holds a hex, the landmass returned lists,
\* each once, the hexes of one 6-neighbour connected component of the map,
\* and no component of the map is larger; for the empty map the landmass is
\* empty.
C20_NonEmptyLandmassIsLargestComponent ==
  ret # None =>
    LET land == HexesOf(ret[1])
        map == HexesOf(call[1].landHexes)
    IN  /\ map # {} =>
             /\ land \subseteq map
             /\ Cardinality(ComponentSets(land)) = 1
             /\ land \in ComponentSets(map)
             /\ \A c \in ComponentSets(map) : Cardinality(c) <= Cardinality(land)
             /\ Len(ret[1]) = Cardinality(land)
        /\ map = {} => ret[1] = <<>>

\* A map of three components, of one, two and one hexes, the largest found
\* neither first nor last: the two-hex component is returned.
C20_Witness ==
  /\ ret # None
  /\ ComponentSets(HexesOf(call[1].landHexes)) =
       { {Hex(0, 0)}, {Hex(0, 2), Hex(1, 2)}, {Hex(2, 0)} }
  /\ HexesOf(ret[1]) = {Hex(0, 2), Hex(1, 2)}

\* The hexes of the cells player p owns.
OwnedIn(cells, p) == {coordOf(cells[i]) : i \in {j \in DOMAIN cells : cells[j].owner = p}}

\* C19: in every result of splitTerritory, whatever the land, the draws and
\* the number of players, the hexes each player owns form exactly one
\* 6-neighbour connected component.
C19_TerritoriesContiguous ==
  (ret # None /\ ~ret[1].error) =>
    \A p \in 0..(call[1].config.playerCount - 1) :
      Cardinality(ComponentSets(OwnedIn(ret[1].cells, p))) = 1

\* The land cells of a list of cells.
LandCount(cells) == Cardinality({i \in DOMAIN cells : cells[i].land})

\* C21: splitTerritory throws exactly when the land cells are fewer than
\* minTerritorySize * playerCount, and then the cells handed in are as they
\* were; otherwise it returns a list of as many cells, in the same places.
C21_SplitSizeCheck ==
  ret # None =>
    LET cells == call[1].cells
        config == call[1].config
    IN  /\ ret[1].error <=> LandCount(cells) < config.minTerritorySize * config.playerCount
        /\ ret[1].error => ret[1].cells = cells
        /\ ~ret[1].error =>
             /\ Len(ret[1].cells) = Len(cells)
             /\ \A i \in DOMAIN cells :
                  /\ ret[1].cells[i].id = cells[i].id
                  /\ coordOf(ret[1].cells[i]) = coordOf(cells[i])

\* A land of exactly minTerritorySize * playerCount cells is split among
\* three players.
C21_Witness ==
  /\ ret # None
  /\ call[1].config.playerCount = 3
  /\ LandCount(call[1].cells) = call[1].config.minTerritorySize * 3
  /\ ~ret[1].error
  /\ \A p \in 0..2 : OwnedIn(ret[1].cells, p) # {}

\* C22: two constructions of a new game from the same playerCount, numeric
\* seed (0 included) and winGoal lay out the same cells, and their engines
\* roll the same dice.
C22_SeedDeterminism ==
  (ret # None /\ call[1].seed # None) =>
    /\ ret[1].cells = ret[1].otherCells
    /\ \A a \in 1..MaxUnits, d \in 1..MaxUnits :
         rollDice(a, d, 0, 1, ret[1].engine) = rollDice(a, d, 0, 1, ret[1].otherEngine)

\* The state NEW_GAME returns for n players, whatever the state before.
FreshGame(n) ==
  LET h == Cardinality({i \in DOMAIN state'.cells : state'.cells[i].owner = 0})
  IN  /\ state'.players = [i \in 1..n |-> i - 1]
      /\ state'.current = 0
      /\ state'.phase = "reinforce"
      /\ state'.reinfLeft = Max(1, h \div 6)
      /\ state'.actionsLeft = 5
      /\ state'.round = 1
      /\ \A p \in PlayerIds : scores'[p] = 0
      /\ state'.selected = None
      /\ state'.lastDiceRoll = None
      /\ state'.pendingCombatResult = None

C24_Frame ==
  [][/\ Len(state'.cells) = Len(state.cells)
     /\ \A i \in DOMAIN state.cells :
          /\ state'.cells[i].id = state.cells[i].id
          /\ state'.cells[i].q = state.cells[i].q
          /\ state'.cells[i].r = state.cells[i].r
          /\ state'.cells[i].land = state.cells[i].land
     /\ state'.players = state.players
     /\ state'.winGoal = state.winGoal]_vars

\* A cell is selected on a board where a committed combat has moved a cell
\* of player 1 to player 0, every cell in its place.
C24_Witness ==
  /\ state.selected # None
  /\ state.pendingCombatResult = None
  /\ \E i \in DOMAIN BoardDuel : BoardDuel[i].owner = 1 /\ state.cells[i].owner = 0
  /\ \A i \in DOMAIN BoardDuel :
       /\ state.cells[i].id = BoardDuel[i].id
       /\ coordOf(state.cells[i]) = coordOf(BoardDuel[i])

CellIds == {state.cells[i].id : i \in DOMAIN state.cells} \cup {NoSuchCell}

\* C26: every id getValidAttackTargets returns for an origin passes canAttack
\* from that origin, and every id getValidReinforcementTargets returns passes
\* canReinforce.
C26_HelpersOfferLegalChoices ==
  /\ \A fromId \in CellIds :
       LET targets == getValidAttackTargets(state, fromId)
       IN  \A i \in DOMAIN targets : canAttack(state, fromId, targets[i])
  /\ LET targets == getValidReinforcementTargets(state)
     IN  \A i \in DOMAIN targets : canReinforce(state, targets[i])

\* C27: the components getConnectedComponents returns are a partition of
\* the listed hexes the predicate accepts: no hex twice in a component, no
\* hex in two components, every accepted hex in one, every component
\* connected under 6-neighbour adjacency and no two hexes of different
\* components adjacent.
C27_ComponentsPartition ==
  ret # None =>
    LET components == ret[1]
        accepted == HexesOf(call[1].hexes) \cap call[1].ownedBy
    IN  /\ \A i \in DOMAIN components :
             /\ components[i] # <<>>
             /\ Len(components[i]) = Cardinality(HexesOf(components[i]))
             /\ Cardinality(ComponentSets(HexesOf(components[i]))) = 1
        /\ \A i \in DOMAIN components, j \in DOMAIN components :
             i # j =>
               /\ HexesOf(components[i]) \cap HexesOf(components[j]) = {}
               /\ \A g \in HexesOf(components[i]), h \in HexesOf(components[j]) :
                    distance(g, h) # 1
        /\ UNION {HexesOf(components[i]) : i \in DOMAIN components} = accepted

\* A list that names one hex twice and holds a hex the predicate rejects:
\* at least two components are returned, one of them of two hexes or more.
C27_Witness ==
  /\ ret # None
  /\ Len(call[1].hexes) > Cardinality(HexesOf(call[1].hexes))
  /\ \E h \in HexesOf(call[1].hexes) : h \notin call[1].ownedBy
  /\ Len(ret[1]) >= 2
  /\ \E i \in DOMAIN ret[1] : Len(ret[1][i]) >= 2

\* The territories splitTerritory holds after voronoiSplit, after
\* balanceTerritories and after enforceContiguity.
TerritoriesOf(c) ==
  LET landCells == filter(c.cells, {d \in {c.cells[i] : i \in DOMAIN c.cells} : d.land})
      landHexes == [i \in DOMAIN landCells |-> coordOf(landCells[i])]
      seeds == findOptimalSeeds(landHexes, c.config.playerCount)
      split == voronoiSplit(landHexes, seeds, c.rng, 0)
      balanced == balanceTerritories(split.territories, c.config.playerCount, c.rng, split.k)
  IN  <<split.territories, balanced.territories, enforceContiguity(balanced.territories)>>

\* Every hex of land is in exactly one of the territories, once.
Partitions(territories, land) ==
  /\ UNION {HexesOf(territories[p]) : p \in DOMAIN territories} = land
  /\ Sum([p \in DOMAIN territories |-> Len(territories[p])]) = Cardinality(land)

PhaseFollowsReinfLeft ==
  /\ state.phase = "reinforce" <=> state.reinfLeft > 0
  /\ state.phase = "attack" <=> state.reinfLeft = 0
  /\ state.phase # "move"

\* C30: in every reachable state phase is reinforce exactly when
\* reinfLeft > 0 and attack exactly when reinfLeft = 0, never move; and the
\* phase goes from attack back to reinforce only by an endTurn.
C30_PhaseFollowsReinforcements ==
  /\ []PhaseFollowsReinfLeft
  /\ [][(state.phase = "attack" /\ state'.phase = "reinforce") => END_TURN]_vars

\* The actions the action creators of useGameActions and the dice panel let
\* through lead from s to a state where canEndTurn holds: s itself, or what
\* an accepted reinforce or the commit of a pending result makes of s.
\* canEndTurn fails only while reinforcements are left, in the reinforce
\* phase, where canAttack and canMove accept nothing.
RECURSIVE TurnCanEnd(_)
TurnCanEnd(s) ==
  \/ canEndTurn(s)
  \/ \E i \in DOMAIN s.cells :
       canReinforce(s, s.cells[i].id) /\ TurnCanEnd(reinforce(s, s.cells[i].id))
  \/ /\ s.pendingCombatResult # None
     /\ TurnCanEnd(reduceApplyCombatResult(s, scores).state)

\* C31: in every state of a game the current player can reach, by accepted
\* actions, a state where endTurn is accepted, also when the player owns no
\* land cell or only full cells at the start of the reinforce phase.
C31_TurnCanEnd == TurnCanEnd(state)

\* The units on the cells of a board, and those on the cells of player p.
TotalUnits(cells) == Sum([i \in DOMAIN cells |-> cells[i].units])
UnitsOf(cells, p) ==
  Sum([i \in DOMAIN cells |-> IF cells[i].owner = p THEN cells[i].units ELSE 0])

\* C32: a move that canMove accepts, from equal to to and cells apart
\* included, leaves the sum of the units of all cells and the units of the
\* current player as they were, and changes the owner of no cell.
C32_MoveConservesUnits ==
  \A f \in PayloadIds(state), t \in PayloadIds(state), n \in MoveCounts :
    canMove(state, f, t) =>
      LET after == move(state, f, t, n)
      IN  /\ TotalUnits(after.cells) = TotalUnits(state.cells)
          /\ UnitsOf(after.cells, state.current) = UnitsOf(state.cells, state.current)
          /\ Len(after.cells) = Len(state.cells)
          /\ \A i \in DOMAIN state.cells : after.cells[i].owner = state.cells[i].owner

\* C33: every id getValidMoveTargets returns for an origin passes canMove
\* from that origin and differs from the origin, and a move of 1 unit to it
\* takes one unit from the origin and puts one on the target.
C33_MoveTargetsAreLegal ==
  \A fromId \in CellIds :
    LET targets == getValidMoveTargets(state, fromId)
    IN  \A i \in DOMAIN targets :
          LET after == move(state, fromId, targets[i], 1)
          IN  /\ canMove(state, fromId, targets[i])
              /\ targets[i] # fromId
              /\ findCell(after.cells, fromId)[1].units
                   = findCell(state.cells, fromId)[1].units - 1
              /\ findCell(after.cells, targets[i])[1].units
                   = findCell(state.cells, targets[i])[1].units + 1

\* C34: APPLY_COMBAT_RESULT changes no field of the state but cells,
\* actionsLeft, lastDiceRoll and pendingCombatResult, and the scores:
\* current, phase, reinfLeft and round stay as the actions dispatched since
\* the ATTACK left them, so no REINFORCE or END_TURN in between is undone.
C34_ApplyKeepsTurn ==
  [][APPLY_COMBAT_RESULT =>
       /\ state'.current = state.current
       /\ state'.phase = state.phase
       /\ state'.reinfLeft = state.reinfLeft
       /\ state'.round = state.round
       /\ state'.players = state.players
       /\ state'.winGoal = state.winGoal
       /\ state'.selected = state.selected]_vars

\* C35: whenever a combat result is pending, after an attack that rolled
\* dice or one that captured an empty cell with the empty roll, the dice
\* panel is rendered, so that its close handler, the one dispatcher of
\* APPLY_COMBAT_RESULT, can commit the result.
C35_PendingResultShowsPanel == HasPending => panelRendered(ret[1])

\* C36: once isGameOver holds it holds after every further action, and
\* getWinner goes on returning the same player.
C36_GameOverIsStable ==
  [][isGameOver(state, scores) =>
       /\ isGameOver(state', scores')
       /\ getWinner(state', scores') = getWinner(state, scores)]_vars

\* The owner of every land cell is one of the players of the game.
OwnersArePlayers ==
  \A c \in Cells(state) :
    c.land => \E i \in DOMAIN state.players : state.players[i] = c.owner

\* The step leaves every cell with its owner and every score as it was.
OwnersAndScoresKept ==
  /\ Len(state'.cells) = Len(state.cells)
  /\ \A i \in DOMAIN state.cells : state'.cells[i].owner = state.cells[i].owner
  /\ scores' = scores

C38_HexDistance ==
  ret # None =>
    LET a == call[1].a
        b == call[1].b
        vec == subtract(a, b)
        twice == Abs(vec.q) + Abs(vec.q + vec.r) + Abs(vec.r)
        d == ret[1].distance
        around == {ret[1].neighbors[i] : i \in DOMAIN ret[1].neighbors}
    IN  /\ twice % 2 = 0
        /\ 2 * d = twice
        /\ d \in Nat
        /\ d = ret[1].back
        /\ d = 0 <=> a = b
        /\ ret[1].adjacent <=> d = 1
        /\ d = 1 <=> b \in around
        /\ Len(ret[1].neighbors) = 6
        /\ Cardinality(around) = 6

\* (0, 0) is the neighbour of (-1, 1) in direction (1, -1), across the
\* third axis: the distance is 1 both ways and the hexes are adjacent.
C38_Witness ==
  /\ ret # None
  /\ call[1].a = Hex(-1, 1)
  /\ call[1].b = Hex(0, 0)
  /\ ret[1].distance = 1
  /\ ret[1].back = 1
  /\ ret[1].adjacent
  /\ ret[1].neighbors[2] = call[1].b

====
